---- MODULE Spec2Model ----
(***************************************************************************)
(* Model of the translation core of the C-like compiler: the predictive    *)
(* (recursive-descent) parser of parser_rd.c, the shift-reduce parser of   *)
(* parser_lalr.c, the tree constructors and the driver of main.c and the   *)
(* lowering passes of codegen.c.                                           *)
(*                                                                         *)
(* The parser is a state machine with an explicit call stack: one frame    *)
(* per active C function, one action per C function, each step running the *)
(* function from its position to its next call or return.                  *)
(***************************************************************************)
EXTENDS Integers, Sequences, FiniteSets, TLC

VARIABLES
    tokens,          \* RDParser.tokens: the EOF-terminated token array
    current_token,   \* RDParser.current_token
    had_error,       \* RDParser.had_error
    error_message,   \* RDParser.error_message
    frames,          \* the C call stack of the parser, innermost last
    ret,             \* value returned by the call that just ended
    status,          \* "running", "done", "crashed" or "idle"
    entry,           \* the function the run was started with
    reported,        \* the latest messages passed to error(), oldest first
    heap,            \* nodes the parser dropped unreleased, and its double frees
    state_stack,     \* LALRParser.state_stack[0 .. state_stack_size - 1]
    symbol_stack,    \* LALRParser.symbol_stack[0 .. symbol_stack_size - 1]
    parser_type,     \* CompilerConfig.parser_type of the driver
    main_pc,         \* position of the driver's main
    freed,           \* number of ast_free_node calls on main's tree
    ast,             \* CodeGenerator.ast
    tac_file,        \* lines of CodeGenerator.tac_file
    stack_file,      \* lines of CodeGenerator.stack_file
    target_file,     \* lines of CodeGenerator.target_file
    temp_var_count,  \* CodeGenerator.temp_var_count
    label_count,     \* CodeGenerator.label_count
    issued,          \* names returned by new_temp / new_label, in call order
    phase            \* the lowering passes run so far, in order

parserVars ==
    <<tokens, current_token, had_error, error_message, frames, ret, status, entry, reported,
      heap>>
lalrVars == <<state_stack, symbol_stack>>
mainVars == <<parser_type, main_pc, freed>>
codegenVars == <<ast, tac_file, stack_file, target_file, temp_var_count, label_count, issued, phase>>
vars == <<tokens, current_token, had_error, error_message, frames, ret, status, entry,
          reported, heap, state_stack, symbol_stack, parser_type, main_pc, freed,
          ast, tac_file, stack_file, target_file, temp_var_count, label_count, issued, phase>>

(***************************************************************************)
(* Bounds of the model.                                                    *)
(***************************************************************************)
MaxBody == 3
MaxExpr == 4
\* number of error reports kept in reported
MaxReports == 2

(***************************************************************************)
(* Tokens.                                                                 *)
(***************************************************************************)
Tok(type, value) == [type |-> type, value |-> value]
NUM(v) == Tok("NUMBER", v)
ID(v) == Tok("IDENTIFIER", v)
STR(v) == Tok("STRING", v)
KW(v) == Tok("KEYWORD", v)
OP(v) == Tok("OPERATOR", v)
PU(v) == Tok("PUNCTUATION", v)
UNK(v) == Tok("UNKNOWN", v)
EOFT == Tok("EOF", "")

(***************************************************************************)
(* Tree nodes. A node is a record; the null pointer is the record Null.    *)
(* NoValue is the payload of a node created with value NULL.               *)
(***************************************************************************)
NoValue == "(null)"
Null == [type |-> "NULL", value |-> NoValue, children |-> <<>>]

\* no node dropped and no block freed twice
NoHeap == [lost |-> <<>>, twice |-> 0]

ast_create_node(type, value) == [type |-> type, value |-> value, children |-> <<>>]

ast_add_child(parent, child) ==
    IF parent = Null \/ child = Null THEN parent
    ELSE [parent EXCEPT !.children = Append(@, child)]

ast_create_program == ast_create_node("PROGRAM", NoValue)
ast_create_block == ast_create_node("BLOCK", NoValue)

ast_create_function(name, params, body) ==
    ast_add_child(ast_add_child(ast_create_node("FUNCTION_DECL", name), params), body)

ast_create_var_decl(type, name, init_expr) ==
    ast_add_child(ast_create_node("VARIABLE_DECL", type \o " " \o name), init_expr)

ast_create_assignment(name, expr) ==
    ast_add_child(ast_create_node("ASSIGNMENT", name), expr)

ast_create_binary_op(op, left, right) ==
    ast_add_child(ast_add_child(ast_create_node("BINARY_OP", op), left), right)

ast_create_unary_op(op, expr) ==
    ast_add_child(ast_create_node("UNARY_OP", op), expr)

ast_create_if(condition, then_branch, else_branch) ==
    ast_add_child(ast_add_child(ast_add_child(
        ast_create_node("IF", NoValue), condition), then_branch), else_branch)

ast_create_while(condition, body) ==
    ast_add_child(ast_add_child(ast_create_node("WHILE", NoValue), condition), body)

ast_create_for(init, condition, update, body) ==
    ast_add_child(ast_add_child(ast_add_child(ast_add_child(
        ast_create_node("FOR", NoValue), init), condition), update), body)

ast_create_return(expr) == ast_add_child(ast_create_node("RETURN", NoValue), expr)

ast_create_call(name, args) == ast_add_child(ast_create_node("CALL", name), args)

ast_create_identifier(name) == ast_create_node("IDENTIFIER", name)
ast_create_number(value) == ast_create_node("NUMBER", value)
ast_create_string(value) == ast_create_node("STRING", value)

(***************************************************************************)
(* ast_free_node releases node->children[i] with free(), which is the      *)
(* children array itself for i = 0 and an interior pointer for i > 0, and  *)
(* then releases the array again: undefined behaviour for every node that  *)
(* has a child. The outcomes are the run going on and the allocator        *)
(* aborting the process.                                                   *)
(***************************************************************************)
ast_free_node(node) ==
    IF node = Null \/ Len(node.children) = 0 THEN {"ok"} ELSE {"ok", "abort"}

(***************************************************************************)
(* The parser's cursor and error slot, p = [cur, err, msg, log], and the   *)
(* token helpers of parser_rd.c. The cursor is 0-based as in the C code;   *)
(* the TLA+ sequence tokens is 1-based. log records the calls of error().  *)
(***************************************************************************)
\* the record of error() calls: the latest MaxReports messages
Report(log, message) ==
    IF Len(log) < MaxReports THEN Append(log, message) ELSE Append(Tail(log), message)

\* mutant of error: the first message is kept
error_first_wins(p, message) ==
    [p EXCEPT !.err = TRUE, !.msg = IF p.err THEN @ ELSE message,
              !.log = Report(@, message)]

error(p, message) == [p EXCEPT !.err = TRUE, !.msg = message, !.log = Report(@, message)]

current(p) ==
    IF p.cur >= Len(tokens) THEN tokens[Len(tokens)] ELSE tokens[p.cur + 1]

previous(p) == IF p.cur = 0 THEN tokens[1] ELSE tokens[p.cur]

is_at_end(p) == current(p).type = "EOF"

\* mutant of advance: the cursor moves on at the EOF token too
advance_past_end(p) == [p EXCEPT !.cur = @ + 1]

advance(p) == IF ~is_at_end(p) THEN [p EXCEPT !.cur = @ + 1] ELSE p

check(p, type) == IF is_at_end(p) THEN FALSE ELSE current(p).type = type

match(p, type) ==
    IF check(p, type) THEN [ok |-> TRUE, p |-> advance(p)] ELSE [ok |-> FALSE, p |-> p]

consume(p, type, error_msg) ==
    IF check(p, type) THEN [ok |-> TRUE, p |-> advance(p)]
    ELSE [ok |-> FALSE, p |-> error(p, error_msg)]

match_value(p, type, value) ==
    IF is_at_end(p) THEN [ok |-> FALSE, p |-> p]
    ELSE IF current(p).type = type /\ current(p).value = value
         THEN [ok |-> TRUE, p |-> advance(p)]
         ELSE [ok |-> FALSE, p |-> p]

\* mutant of put_back: the cursor goes back to the first token
put_back_to_start(p) == [p EXCEPT !.cur = 0]

\* parser->current_token--, executed only after a successful match
put_back(p) == [p EXCEPT !.cur = @ - 1]

TypeKeywords == {"int", "float", "char", "void"}

(***************************************************************************)
(* Call stack. A frame holds the function, its position pc and its locals: *)
(* v1..v3 are node locals, s1 and s2 string locals; at is the cursor at    *)
(* the call.                                                               *)
(***************************************************************************)
Frame(fn) ==
    [fn |-> fn, pc |-> 0, v1 |-> Null, v2 |-> Null, v3 |-> Null, s1 |-> "", s2 |-> "",
     at |-> 0]

Top(st) == st[Len(st)]
Pop(st) == SubSeq(st, 1, Len(st) - 1)
SetTop(st, f) == [st EXCEPT ![Len(st)] = f]
At(f, pc) == [f EXCEPT !.pc = pc]

Out(p, st, rv, s) == [p |-> p, frames |-> st, ret |-> rv, status |-> s]
DoCall(p, st, f, callee) ==
    {Out(p, Append(SetTop(st, f), [Frame(callee) EXCEPT !.at = p.cur]), Null, "running")}
DoReturn(p, st, v) == {Out(p, Pop(st), v, IF Len(st) = 1 THEN "done" ELSE "running")}
DoJump(p, st, f) == {Out(p, SetTop(st, f), Null, "running")}
DoCrash(p, st) == {Out(p, st, Null, "crashed")}

\* a local of a returning rule holds a node that was neither attached to a
\* parent, nor released, nor returned: the node stays allocated
Lose(p, node) == IF node = Null THEN p ELSE [p EXCEPT !.heap.lost = Append(@, node)]

\* ast_free_node on a node with a child frees the children array twice
Freed(p, node) ==
    IF node = Null \/ Len(node.children) = 0 THEN p ELSE [p EXCEPT !.heap.twice = @ + 1]

\* ast_free_node(node) followed by the outcomes cont
FreeThen(node, p, st, cont) ==
    UNION {IF o = "ok" THEN {[c EXCEPT !.p = Freed(@, node)] : c \in cont}
           ELSE DoCrash(Freed(p, node), st) : o \in ast_free_node(node)}

(***************************************************************************)
(* expr->type and expr->value read through a pointer that may be null: a   *)
(* null read is undefined; the process is killed or the read yields some   *)
(* value.                                                                  *)
(***************************************************************************)
Garbage == "<garbage>"
deref_type(node) ==
    IF node = Null THEN {"<segv>", "IDENTIFIER", "<other>"} ELSE {node.type}
deref_value(node) == IF node = Null THEN Garbage ELSE node.value

(***************************************************************************)
(* program := function*                                                    *)
(***************************************************************************)
RECURSIVE skip_to_type(_)
skip_to_type(p) ==
    IF ~is_at_end(p) /\ ~(check(p, "KEYWORD") /\ current(p).value \in TypeKeywords)
    THEN skip_to_type(advance(p))
    ELSE p

parse_program_step(p, st, f, rv) ==
    CASE f.pc = 0 -> DoJump(p, st, [f EXCEPT !.pc = 1, !.v1 = ast_create_program])
      [] f.pc = 1 ->
            IF ~is_at_end(p) THEN DoCall(p, st, At(f, 2), "parse_function")
            ELSE DoReturn(p, st, f.v1)
      [] f.pc = 2 ->
            IF rv # Null
            THEN DoJump(p, st, [f EXCEPT !.pc = 1, !.v1 = ast_add_child(@, rv)])
            ELSE IF p.err THEN DoJump(skip_to_type(p), st, At(f, 1))
                 ELSE DoJump(p, st, At(f, 1))

(***************************************************************************)
(* function := TYPE IDENTIFIER '(' ... ')' block                           *)
(***************************************************************************)
RECURSIVE skip_params(_)
skip_params(p) ==
    IF ~check(p, "PUNCTUATION") \/ current(p).value # ")"
    THEN LET q == advance(p)
         IN IF is_at_end(q)
            THEN [ok |-> FALSE, p |-> error(q, "Unterminated parameter list")]
            ELSE skip_params(q)
    ELSE [ok |-> TRUE, p |-> p]

parse_function_step(p, st, f, rv) ==
    CASE f.pc = 0 ->
            IF ~check(p, "KEYWORD")
            THEN DoReturn(error(p, "Expected return type for function declaration"), st, Null)
            ELSE LET c1 == consume(advance(p), "IDENTIFIER", "Expected function name")
                 IN IF ~c1.ok THEN DoReturn(c1.p, st, Null)
                    ELSE LET name == previous(c1.p).value
                             c2 == consume(c1.p, "PUNCTUATION", "Expected '(' after function name")
                             params == ast_create_node("BLOCK", "params")
                             sk == skip_params(c2.p)
                         IN IF ~sk.ok
                            THEN FreeThen(params, sk.p, st, DoReturn(sk.p, st, Null))
                            ELSE DoCall(consume(sk.p, "PUNCTUATION", "Expected ')' after parameters").p,
                                        st, [f EXCEPT !.pc = 1, !.s1 = name, !.v1 = params],
                                        "parse_block")
      [] f.pc = 1 ->
            IF rv = Null THEN FreeThen(f.v1, p, st, DoReturn(p, st, Null))
            ELSE DoReturn(p, st, ast_create_function(f.s1, f.v1, rv))

(***************************************************************************)
(* block := '{' statement* '}'                                             *)
(***************************************************************************)
parse_block_step(p, st, f, rv) ==
    CASE f.pc = 0 ->
            LET m == match(p, "PUNCTUATION")
            IN IF ~m.ok \/ previous(m.p).value # "{"
               THEN DoReturn(error(m.p, "Expected '{' before block"), st, Null)
               ELSE DoJump(m.p, st, [f EXCEPT !.pc = 1, !.v1 = ast_create_block])
      [] f.pc = 1 ->
            IF ~check(p, "PUNCTUATION") \/ current(p).value # "}"
            THEN DoCall(p, st, At(f, 2), "parse_statement")
            ELSE DoReturn(consume(p, "PUNCTUATION", "Expected '}' after block").p, st, f.v1)
      [] f.pc = 2 ->
            LET block == ast_add_child(f.v1, rv)
            IN IF is_at_end(p)
               THEN LET q == error(p, "Unterminated block")
                    IN FreeThen(block, q, st, DoReturn(q, st, Null))
               ELSE DoJump(p, st, [f EXCEPT !.pc = 1, !.v1 = block])

(***************************************************************************)
(* statement dispatch                                                      *)
(***************************************************************************)
parse_statement_step(p, st, f, rv) ==
    CASE f.pc = 0 ->
            LET m == match(p, "KEYWORD")
                keyword == previous(m.p).value
            IN IF m.ok
               THEN CASE keyword = "if" -> DoCall(m.p, st, At(f, 1), "parse_if_statement")
                      [] keyword = "while" -> DoCall(m.p, st, At(f, 1), "parse_while_statement")
                      [] keyword = "for" -> DoCall(m.p, st, At(f, 1), "parse_for_statement")
                      [] keyword = "return" -> DoCall(m.p, st, At(f, 1), "parse_return_statement")
                      [] keyword \in TypeKeywords -> DoJump(m.p, st, At(f, 2))
                      [] OTHER -> DoCall(m.p, st, At(f, 1), "parse_expression_statement")
               ELSE IF check(p, "PUNCTUATION") /\ current(p).value = "{"
                    THEN DoCall(p, st, At(f, 1), "parse_block")
                    ELSE DoCall(p, st, At(f, 1), "parse_expression_statement")
      [] f.pc = 1 -> DoReturn(p, st, rv)
      [] f.pc = 2 -> DoCall(put_back(p), st, At(f, 1), "parse_var_declaration")

parse_expression_statement_step(p, st, f, rv) ==
    CASE f.pc = 0 -> DoCall(p, st, At(f, 1), "parse_expression")
      [] f.pc = 1 ->
            LET c == consume(p, "PUNCTUATION", "Expected ';' after expression")
            IN IF ~c.ok THEN FreeThen(rv, c.p, st, DoReturn(c.p, st, Null))
               ELSE DoReturn(c.p, st, rv)

parse_if_statement_step(p, st, f, rv) ==
    CASE f.pc = 0 ->
            DoCall(consume(p, "PUNCTUATION", "Expected '(' after 'if'").p, st, At(f, 1),
                   "parse_expression")
      [] f.pc = 1 ->
            DoCall(consume(p, "PUNCTUATION", "Expected ')' after if condition").p, st,
                   [f EXCEPT !.pc = 2, !.v1 = rv], "parse_statement")
      [] f.pc = 2 ->
            LET m == match_value(p, "KEYWORD", "else")
            IN IF m.ok THEN DoCall(m.p, st, [f EXCEPT !.pc = 3, !.v2 = rv], "parse_statement")
               ELSE DoReturn(m.p, st, ast_create_if(f.v1, rv, Null))
      [] f.pc = 3 -> DoReturn(p, st, ast_create_if(f.v1, f.v2, rv))

parse_while_statement_step(p, st, f, rv) ==
    CASE f.pc = 0 ->
            DoCall(consume(p, "PUNCTUATION", "Expected '(' after 'while'").p, st, At(f, 1),
                   "parse_expression")
      [] f.pc = 1 ->
            DoCall(consume(p, "PUNCTUATION", "Expected ')' after while condition").p, st,
                   [f EXCEPT !.pc = 2, !.v1 = rv], "parse_statement")
      [] f.pc = 2 -> DoReturn(p, st, ast_create_while(f.v1, rv))

(***************************************************************************)
(* forStmt := 'for' '(' (';' | varDecl | expression ';') expression? ';'   *)
(*            expression? ')' statement                                    *)
(***************************************************************************)
for_body(p, st, f) ==
    DoCall(consume(p, "PUNCTUATION", "Expected ')' after for clauses").p, st, At(f, 5),
           "parse_statement")

for_increment(p, st, f) ==
    LET c == consume(p, "PUNCTUATION", "Expected ';' after for condition")
    IN IF ~check(c.p, "PUNCTUATION") \/ current(c.p).value # ")"
       THEN DoCall(c.p, st, At(f, 4), "parse_expression")
       ELSE for_body(c.p, st, f)

for_condition(p, st, f) ==
    IF ~check(p, "PUNCTUATION") \/ current(p).value # ";"
    THEN DoCall(p, st, At(f, 3), "parse_expression")
    ELSE for_increment(p, st, f)

parse_for_statement_step(p, st, f, rv) ==
    CASE f.pc = 0 ->
            LET c0 == consume(p, "PUNCTUATION", "Expected '(' after 'for'")
                m1 == match(c0.p, "PUNCTUATION")
                m2 == match(m1.p, "KEYWORD")
            IN IF m1.ok /\ previous(m1.p).value = ";"
               THEN for_condition(m1.p, st, f)
               ELSE IF m2.ok /\ previous(m2.p).value \in {"int", "float", "char"}
                    THEN DoJump(m2.p, st, At(f, 6))
                    ELSE DoCall(m2.p, st, At(f, 2), "parse_expression")
      [] f.pc = 1 -> for_condition(p, st, [f EXCEPT !.v1 = rv])
      [] f.pc = 2 ->
            for_condition(consume(p, "PUNCTUATION", "Expected ';' after for initializer").p,
                          st, [f EXCEPT !.v1 = rv])
      [] f.pc = 3 -> for_increment(p, st, [f EXCEPT !.v2 = rv])
      [] f.pc = 4 -> for_body(p, st, [f EXCEPT !.v3 = rv])
      [] f.pc = 5 -> DoReturn(p, st, ast_create_for(f.v1, f.v2, f.v3, rv))
      [] f.pc = 6 -> DoCall(put_back(p), st, At(f, 1), "parse_var_declaration")

parse_return_statement_step(p, st, f, rv) ==
    CASE f.pc = 0 ->
            IF ~check(p, "PUNCTUATION") \/ current(p).value # ";"
            THEN DoCall(p, st, At(f, 1), "parse_expression")
            ELSE DoReturn(consume(p, "PUNCTUATION", "Expected ';' after return value").p, st,
                          ast_create_return(Null))
      [] f.pc = 1 ->
            DoReturn(consume(p, "PUNCTUATION", "Expected ';' after return value").p, st,
                     ast_create_return(rv))

(***************************************************************************)
(* varDecl := TYPE IDENTIFIER ('=' expression)? ';'                        *)
(***************************************************************************)
parse_var_declaration_step(p, st, f, rv) ==
    CASE f.pc = 0 ->
            IF ~check(p, "KEYWORD") THEN DoReturn(error(p, "Expected type name"), st, Null)
            ELSE LET type == current(p).value
                     c == consume(advance(p), "IDENTIFIER", "Expected variable name")
                     name == previous(c.p).value
                     m == match(c.p, "OPERATOR")
                 IN IF ~c.ok THEN DoReturn(c.p, st, Null)
                    ELSE IF m.ok /\ previous(m.p).value = "="
                         THEN DoCall(m.p, st, [f EXCEPT !.pc = 1, !.s1 = type, !.s2 = name],
                                     "parse_expression")
                         ELSE DoReturn(consume(m.p, "PUNCTUATION",
                                               "Expected ';' after variable declaration").p,
                                       st, ast_create_var_decl(type, name, Null))
      [] f.pc = 1 ->
            DoReturn(consume(p, "PUNCTUATION", "Expected ';' after variable declaration").p,
                     st, ast_create_var_decl(f.s1, f.s2, rv))

(***************************************************************************)
(* Expression layers.                                                      *)
(***************************************************************************)
parse_expression_step(p, st, f, rv) ==
    CASE f.pc = 0 -> DoCall(p, st, At(f, 1), "parse_assignment")
      [] f.pc = 1 -> DoReturn(p, st, rv)

parse_assignment_step(p, st, f, rv) ==
    CASE f.pc = 0 -> DoCall(p, st, At(f, 1), "parse_equality")
      [] f.pc = 1 ->
            LET m == match(p, "OPERATOR")
            IN IF m.ok /\ previous(m.p).value = "="
               THEN DoCall(m.p, st, [f EXCEPT !.pc = 2, !.v1 = rv], "parse_assignment")
               ELSE DoReturn(m.p, st, rv)
      [] f.pc = 2 ->
            UNION {CASE t = "<segv>" -> DoCrash(p, st)
                     [] t = "IDENTIFIER" ->
                            DoReturn(Lose(p, f.v1), st,
                                     ast_create_assignment(deref_value(f.v1), rv))
                     [] OTHER ->
                            DoReturn(Lose(error(p, "Invalid assignment target"), rv), st, f.v1)
                   : t \in deref_type(f.v1)}

\* The loop shared by parse_equality, parse_comparison, parse_term and
\* parse_factor: left := sub(); while (match(OPERATOR) && text in ops) ...
binary_layer(p, st, f, rv, sub, ops) ==
    CASE f.pc = 0 -> DoCall(p, st, At(f, 1), sub)
      [] OTHER ->
            LET expr == IF f.pc = 1 THEN rv ELSE ast_create_binary_op(f.s1, f.v1, rv)
                m == match(p, "OPERATOR")
            IN IF m.ok /\ previous(m.p).value \in ops
               THEN DoCall(m.p, st, [f EXCEPT !.pc = 2, !.v1 = expr, !.s1 = previous(m.p).value],
                           sub)
               ELSE DoReturn(m.p, st, expr)

parse_equality_step(p, st, f, rv) ==
    binary_layer(p, st, f, rv, "parse_comparison", {"==", "!="})

parse_comparison_step(p, st, f, rv) ==
    binary_layer(p, st, f, rv, "parse_term", {">", ">=", "<", "<="})

parse_term_step(p, st, f, rv) ==
    binary_layer(p, st, f, rv, "parse_factor", {"+", "-"})

parse_factor_step(p, st, f, rv) ==
    binary_layer(p, st, f, rv, "parse_unary", {"*", "/", "%"})

parse_unary_step(p, st, f, rv) ==
    CASE f.pc = 0 ->
            LET m == match(p, "OPERATOR")
            IN IF m.ok /\ previous(m.p).value \in {"!", "-"}
               THEN DoCall(m.p, st, [f EXCEPT !.pc = 1, !.s1 = previous(m.p).value],
                           "parse_unary")
               ELSE DoCall(m.p, st, At(f, 2), "parse_call")
      [] f.pc = 1 -> DoReturn(p, st, ast_create_unary_op(f.s1, rv))
      [] f.pc = 2 -> DoReturn(p, st, rv)

(***************************************************************************)
(* call := primary ( '(' argList? ')' )?                                   *)
(***************************************************************************)
call_finish(p, st, f) ==
    LET c == consume(p, "PUNCTUATION", "Expected ')' after function arguments")
        q == error(c.p, "Expected function name")
    IN UNION {CASE t = "<segv>" -> DoCrash(c.p, st)
                [] t = "IDENTIFIER" ->
                       DoReturn(Lose(c.p, f.v1), st, ast_create_call(deref_value(f.v1), f.v2))
                [] OTHER ->
                       FreeThen(f.v1, q, st, FreeThen(f.v2, q, st, DoReturn(q, st, Null)))
              : t \in deref_type(f.v1)}

parse_call_step(p, st, f, rv) ==
    CASE f.pc = 0 -> DoCall(p, st, At(f, 1), "parse_primary")
      [] f.pc = 1 ->
            LET m == match(p, "PUNCTUATION")
                g == [f EXCEPT !.v1 = rv, !.v2 = ast_create_node("BLOCK", "args")]
            IN IF m.ok /\ previous(m.p).value = "("
               THEN IF ~check(m.p, "PUNCTUATION") \/ current(m.p).value # ")"
                    THEN DoCall(m.p, st, At(g, 2), "parse_expression")
                    ELSE call_finish(m.p, st, g)
               ELSE DoReturn(m.p, st, rv)
      [] f.pc = 2 ->
            LET g == [f EXCEPT !.v2 = ast_add_child(@, rv)]
                m == match(p, "PUNCTUATION")
            IN IF m.ok /\ previous(m.p).value = ","
               THEN DoCall(m.p, st, g, "parse_expression")
               ELSE call_finish(m.p, st, g)

parse_primary_step(p, st, f, rv) ==
    CASE f.pc = 0 ->
            LET mn == match(p, "NUMBER")
                ms == match(p, "STRING")
                mi == match(p, "IDENTIFIER")
                mp == match(p, "PUNCTUATION")
            IN IF mn.ok THEN DoReturn(mn.p, st, ast_create_number(previous(mn.p).value))
               ELSE IF ms.ok THEN DoReturn(ms.p, st, ast_create_string(previous(ms.p).value))
               ELSE IF mi.ok
                    THEN DoReturn(mi.p, st, ast_create_identifier(previous(mi.p).value))
               ELSE IF mp.ok /\ previous(mp.p).value = "("
                    THEN DoCall(mp.p, st, At(f, 1), "parse_expression")
               ELSE DoReturn(error(mp.p, "Expected expression"), st, Null)
      [] f.pc = 1 ->
            DoReturn(consume(p, "PUNCTUATION", "Expected ')' after expression").p, st, rv)

(***************************************************************************)
(* parser_rd_parse, the public entry point: resets the error state and     *)
(* returns a fixed tree; it calls no grammar rule.                         *)
(***************************************************************************)
\* mutant of parser_rd_parse: the result of the program rule is returned
parser_rd_parse_grammar(p, st, f, rv) ==
    CASE f.pc = 0 -> DoCall([p EXCEPT !.err = FALSE, !.msg = ""], st, At(f, 1), "parse_program")
      [] f.pc = 1 -> DoReturn(p, st, rv)

parser_rd_parse_step(p, st, f, rv) ==
    LET q == [p EXCEPT !.err = FALSE, !.msg = ""]
        root == ast_create_program
        main_func == ast_create_function("main", Null, Null)
    IN DoReturn(q, st, ast_add_child(root, main_func))

(***************************************************************************)
(* Token streams the parser is run on. Every stream ends with the one EOF  *)
(* token the lexer appends.                                                *)
(***************************************************************************)
SeqsUpTo(S, n) == UNION {[1..k -> S] : k \in 0..n}

ExprAlphabet ==
    {NUM("1"), ID("a"), OP("+"), OP("*"), OP("="), PU("("), PU(")"), PU(",")}

BodyAlphabet ==
    {KW("int"), KW("if"), KW("return"), ID("x"), NUM("1"), OP("="),
     PU(";"), PU("("), PU("{"), PU("}"), UNK("@")}

FunctionHead == <<KW("int"), ID("f"), PU("("), PU(")"), PU("{")>>

ExprSamples ==
    {<<NUM("1"), OP("+"), NUM("2"), OP("*"), NUM("3")>>,
     <<ID("a"), OP("="), ID("b"), OP("="), NUM("1")>>,
     <<ID("a"), OP("="), OP("="), OP("="), OP("="), OP("="), NUM("1")>>,
     <<OP("-"), ID("a"), OP("<"), NUM("2"), OP("=="), STR("s")>>,
     <<ID("f"), PU("("), NUM("1"), PU(","), ID("a"), PU(")")>>,
     <<PU("("), NUM("1"), PU(")"), PU("("), PU(")")>>}

StmtSamples ==
    {<<NUM("1"), OP("="), NUM("2"), PU(";")>>,
     <<KW("while"), PU("("), ID("a"), PU(")"), ID("f"), PU("("), PU(")"), PU(";")>>,
     <<KW("if"), PU("("), ID("a"), PU(")"), ID("a"), PU(";"), KW("else"), ID("b"), PU(";")>>,
     <<KW("for"), PU("("), PU(";"), PU(";"), PU(")"), ID("a"), PU(";")>>,
     <<KW("for"), PU("("), KW("int"), ID("i"), OP("="), NUM("0"), PU(";"),
       ID("i"), PU(";"), ID("i"), PU(")"), ID("f"), PU("("), ID("i"), PU(")"), PU(";")>>,
     <<KW("for"), PU("("), ID("i"), PU(";"), ID("i"), PU(";"), ID("i"), PU(")"),
       PU("{"), PU("}")>>}

ProgramSamples ==
    {<<KW("int"), ID("main"), PU("("), PU(")"), PU("{"), KW("return"), NUM("0"), PU(";"),
       PU("}")>>,
     <<KW("int"), ID("f"), PU("("), KW("int"), ID("a"), PU(")"), PU("{"), PU("}"),
       KW("void"), ID("g"), PU("("), PU(")"), PU("{"), PU("}")>>,
     <<KW("int"), ID("f"), PU("("), PU(")"), PU("{"), ID("x"), PU("}"),
       KW("int"), ID("g"), PU("("), PU(")"), PU("{"), PU("}")>>,
     <<KW("int"), ID("f"), PU("("), PU(")"), PU("{"), ID("f"), PU("("), PU(")"), PU(";"),
       PU("}")>>,
     <<KW("int"), ID("f"), PU("("), KW("int"), ID("a")>>,
     <<KW("int"), ID("f"), PU("("), PU(")"), PU("{"), KW("for"), PU("("), KW("int"), ID("i"),
       PU(";"), PU(";"), PU(")"), PU(";"), PU("}")>>,
     <<ID("x"), KW("int"), NUM("1")>>,
     <<KW("int"), NUM("1"), KW("int"), ID("g"), PU("("), PU(")"), PU("{"), PU("}")>>,
     <<KW("int"), PU("("), PU(")"), PU("{"), KW("int"), ID("x"), PU(";"), PU("}"),
       KW("int"), ID("g"), PU("("), PU(")"), PU("{"), PU("}")>>}

Inputs(e) ==
    CASE e = "parse_expression" -> ExprSamples \cup SeqsUpTo(ExprAlphabet, MaxExpr)
      [] e = "parse_statement" -> StmtSamples
      [] e = "parse_program" ->
            ProgramSamples \cup {FunctionHead \o b : b \in SeqsUpTo(BodyAlphabet, MaxBody)}
      [] e = "parser_rd_parse" -> ProgramSamples

Entries == {"parse_expression", "parse_statement", "parse_program", "parser_rd_parse"}

(***************************************************************************)
(* The lowering run is not started while the parser is studied.            *)
(***************************************************************************)
CodegenIdle ==
    /\ ast = Null
    /\ tac_file = <<>>
    /\ stack_file = <<>>
    /\ target_file = <<>>
    /\ temp_var_count = 0
    /\ label_count = 0
    /\ issued = <<>>
    /\ phase = <<>>

\* no shift-reduce parser and no driver either
LalrIdle ==
    /\ state_stack = <<>>
    /\ symbol_stack = <<>>

MainIdle ==
    /\ parser_type = "none"
    /\ main_pc = "none"
    /\ freed = 0

\* parser_rd_init, followed by the call of the entry function
Init ==
    /\ entry \in Entries
    /\ tokens \in {t \o <<EOFT>> : t \in Inputs(entry)}
    /\ current_token = 0
    /\ had_error = FALSE
    /\ error_message = ""
    /\ frames = <<Frame(entry)>>
    /\ ret = Null
    /\ status = "running"
    /\ reported = <<>>
    /\ heap = NoHeap
    /\ CodegenIdle
    /\ LalrIdle
    /\ MainIdle

P == [cur |-> current_token, err |-> had_error, msg |-> error_message, log |-> reported,
      heap |-> heap]

Apply(o) ==
    /\ current_token' = o.p.cur
    /\ had_error' = o.p.err
    /\ error_message' = o.p.msg
    /\ frames' = o.frames
    /\ ret' = o.ret
    /\ status' = o.status
    /\ reported' = o.p.log
    /\ heap' = o.p.heap
    /\ UNCHANGED <<tokens, entry>>
    /\ UNCHANGED <<codegenVars, lalrVars, mainVars>>

Active(fn) == status = "running" /\ Top(frames).fn = fn

parse_program ==
    Active("parse_program") /\ \E o \in parse_program_step(P, frames, Top(frames), ret) : Apply(o)
parse_function ==
    Active("parse_function") /\ \E o \in parse_function_step(P, frames, Top(frames), ret) : Apply(o)
parse_block ==
    Active("parse_block") /\ \E o \in parse_block_step(P, frames, Top(frames), ret) : Apply(o)
parse_statement ==
    Active("parse_statement") /\ \E o \in parse_statement_step(P, frames, Top(frames), ret) : Apply(o)
parse_expression_statement ==
    /\ Active("parse_expression_statement")
    /\ \E o \in parse_expression_statement_step(P, frames, Top(frames), ret) : Apply(o)
parse_if_statement ==
    /\ Active("parse_if_statement")
    /\ \E o \in parse_if_statement_step(P, frames, Top(frames), ret) : Apply(o)
parse_while_statement ==
    /\ Active("parse_while_statement")
    /\ \E o \in parse_while_statement_step(P, frames, Top(frames), ret) : Apply(o)
parse_for_statement ==
    /\ Active("parse_for_statement")
    /\ \E o \in parse_for_statement_step(P, frames, Top(frames), ret) : Apply(o)
parse_return_statement ==
    /\ Active("parse_return_statement")
    /\ \E o \in parse_return_statement_step(P, frames, Top(frames), ret) : Apply(o)
parse_var_declaration ==
    /\ Active("parse_var_declaration")
    /\ \E o \in parse_var_declaration_step(P, frames, Top(frames), ret) : Apply(o)
parse_expression ==
    Active("parse_expression") /\ \E o \in parse_expression_step(P, frames, Top(frames), ret) : Apply(o)
parse_assignment ==
    Active("parse_assignment") /\ \E o \in parse_assignment_step(P, frames, Top(frames), ret) : Apply(o)
parse_equality ==
    Active("parse_equality") /\ \E o \in parse_equality_step(P, frames, Top(frames), ret) : Apply(o)
parse_comparison ==
    Active("parse_comparison") /\ \E o \in parse_comparison_step(P, frames, Top(frames), ret) : Apply(o)
parse_term ==
    Active("parse_term") /\ \E o \in parse_term_step(P, frames, Top(frames), ret) : Apply(o)
parse_factor ==
    Active("parse_factor") /\ \E o \in parse_factor_step(P, frames, Top(frames), ret) : Apply(o)
parse_unary ==
    Active("parse_unary") /\ \E o \in parse_unary_step(P, frames, Top(frames), ret) : Apply(o)
parse_call ==
    Active("parse_call") /\ \E o \in parse_call_step(P, frames, Top(frames), ret) : Apply(o)
parse_primary ==
    Active("parse_primary") /\ \E o \in parse_primary_step(P, frames, Top(frames), ret) : Apply(o)
parser_rd_parse ==
    Active("parser_rd_parse") /\ \E o \in parser_rd_parse_step(P, frames, Top(frames), ret) : Apply(o)

Next ==
    \/ parse_program
    \/ parse_function
    \/ parse_block
    \/ parse_statement
    \/ parse_expression_statement
    \/ parse_if_statement
    \/ parse_while_statement
    \/ parse_for_statement
    \/ parse_return_statement
    \/ parse_var_declaration
    \/ parse_expression
    \/ parse_assignment
    \/ parse_equality
    \/ parse_comparison
    \/ parse_term
    \/ parse_factor
    \/ parse_unary
    \/ parse_call
    \/ parse_primary
    \/ parser_rd_parse

Spec == Init /\ [][Next]_vars

\* the parser is one sequential C thread: a step that can be taken is taken
SpecLive == Spec /\ WF_vars(Next)

(***************************************************************************)
(* Lowering (codegen.c). g is the CodeGenerator while a pass runs:         *)
(* [temp_var_count, label_count, tac_file, stack_file, issued, junk,       *)
(* crashed]. A file is the sequence of its lines; a char* that is NULL     *)
(* prints as "(null)".                                                     *)
(***************************************************************************)
\* char *args[16] in generate_expr_tac
MaxCallArgs == 16

Wild == [type |-> "<wild>", value |-> Garbage, children |-> <<>>]
Junk == [type |-> "<junk>", value |-> Garbage, children |-> <<>>]
JunkNodes == {Junk, Wild}

\* &node->children[i]: a child, the null pointer (children == NULL, i = 0),
\* a pointer into unmapped memory (children == NULL, i > 0) or a slot of
\* the children array that was never written.
child(g, node, i) ==
    IF i < Len(node.children) THEN node.children[i + 1]
    ELSE IF Len(node.children) = 0 THEN (IF i = 0 THEN Null ELSE Wild)
    ELSE g.junk

\* sprintf(temp, "t%d", n)
temp_name(n) == "t" \o ToString(n)
\* sprintf(label, "L%d", n)
label_name(n) == "L" \o ToString(n)

\* one entry of the log of issued names
Issue(kind, number, name) == [kind |-> kind, number |-> number, name |-> name]

\* a generator of temporaries that leaves the counter where it was
new_temp_stuck(g) ==
    IF g.crashed THEN [g |-> g, name |-> NoValue]
    ELSE [g |-> [g EXCEPT !.issued = Append(@, Issue("t", g.temp_var_count,
                                                     temp_name(g.temp_var_count)))],
          name |-> temp_name(g.temp_var_count)]

\* Nothing runs after a crash: every operator leaves a crashed run as it is.
new_temp(g) ==
    IF g.crashed THEN [g |-> g, name |-> NoValue]
    ELSE [g |-> [g EXCEPT !.temp_var_count = @ + 1,
                          !.issued = Append(@, Issue("t", g.temp_var_count,
                                                     temp_name(g.temp_var_count)))],
          name |-> temp_name(g.temp_var_count)]

\* a generator of labels that leaves the counter where it was
new_label_stuck(g) ==
    IF g.crashed THEN [g |-> g, name |-> NoValue]
    ELSE [g |-> [g EXCEPT !.issued = Append(@, Issue("L", g.label_count,
                                                     label_name(g.label_count)))],
          name |-> label_name(g.label_count)]

new_label(g) ==
    IF g.crashed THEN [g |-> g, name |-> NoValue]
    ELSE [g |-> [g EXCEPT !.label_count = @ + 1,
                          !.issued = Append(@, Issue("L", g.label_count,
                                                     label_name(g.label_count)))],
          name |-> label_name(g.label_count)]

\* fprintf(codegen->tac_file, ...) and fprintf(codegen->stack_file, ...) of one line
tac(g, line) == IF g.crashed THEN g ELSE [g EXCEPT !.tac_file = Append(@, line)]
stk(g, line) == IF g.crashed THEN g ELSE [g EXCEPT !.stack_file = Append(@, line)]
crash(g) == [g EXCEPT !.crashed = TRUE]

(***************************************************************************)
(* Three-address pass. An expression yields the run and the name of the    *)
(* value (the returned string).                                            *)
(***************************************************************************)
RECURSIVE generate_expr_tac(_, _)
RECURSIVE call_args_tac(_, _, _, _)
RECURSIVE emit_params(_, _, _)

\* for (i = 0; i < num_args; i++) args[i] = generate_expr_tac(...)
call_args_tac(g, args_node, i, acc) ==
    IF i >= Len(args_node.children) THEN [g |-> g, args |-> acc]
    ELSE LET r == generate_expr_tac(g, child(g, args_node, i))
         IN call_args_tac(r.g, args_node, i + 1, Append(acc, r.val))

\* for (i = 0; i < num_args; i++) fprintf("param %s\n", args[i])
emit_params(g, args, i) ==
    IF i > Len(args) THEN g ELSE emit_params(tac(g, "param " \o args[i]), args, i + 1)

\* temp = new_temp(); fprintf("%s = %s\n", temp, text); return temp
emit_temp(t, text) == [g |-> tac(t.g, t.name \o " = " \o text), val |-> t.name]

binary_tac(l, r, op) == emit_temp(new_temp(r.g), l.val \o " " \o op \o " " \o r.val)
unary_tac(e, op) == emit_temp(new_temp(e.g), op \o " " \o e.val)
call_tac(a, name) ==
    emit_temp(new_temp(emit_params(a.g, a.args, 1)),
              "call " \o name \o ", " \o ToString(Len(a.args)))

generate_expr_tac(g, node) ==
    IF g.crashed THEN [g |-> g, val |-> NoValue]
    ELSE IF node = Null THEN [g |-> g, val |-> NoValue]
    ELSE IF node.type = "<wild>" THEN [g |-> crash(g), val |-> NoValue]
    ELSE IF node.type \in {"NUMBER", "IDENTIFIER"} THEN [g |-> g, val |-> node.value]
    ELSE IF node.type = "BINARY_OP"
    THEN LET l == generate_expr_tac(g, child(g, node, 0))
         IN binary_tac(l, generate_expr_tac(l.g, child(g, node, 1)), node.value)
    ELSE IF node.type = "UNARY_OP"
    THEN unary_tac(generate_expr_tac(g, child(g, node, 0)), node.value)
    ELSE IF node.type = "CALL"
    THEN IF ~(Len(node.children) > 0 /\ node.children[1].type = "BLOCK")
         THEN call_tac([g |-> g, args |-> <<>>], node.value)
         ELSE IF Len(node.children[1].children) > MaxCallArgs
         THEN [g |-> crash(g), val |-> NoValue]
         ELSE call_tac(call_args_tac(g, node.children[1], 0, <<>>), node.value)
    ELSE [g |-> g, val |-> "error"]

RECURSIVE generate_stmt_tac(_, _)
RECURSIVE block_tac(_, _, _)
RECURSIVE if_tac(_, _, _, _)
RECURSIVE while_tac(_, _, _, _)
RECURSIVE for_tac(_, _, _, _, _)

\* for (i = 0; i < node->num_children; i++) generate_stmt_tac(...)
block_tac(g, node, i) ==
    IF i >= Len(node.children) THEN g
    ELSE block_tac(generate_stmt_tac(g, child(g, node, i)), node, i + 1)

\* fprintf("%s = %s\n", node->value, value)
assign_tac(v, name) == tac(v.g, name \o " = " \o v.val)
\* fprintf("if %s == 0 goto %s\n", condition, label)
branch_tac(c, label) == tac(c.g, "if " \o c.val \o " == 0 goto " \o label)
\* fprintf("return %s\n", value)
return_tac(v) == tac(v.g, "return " \o v.val)

\* NODE_IF after the condition and the two labels
if_tac(g, node, else_label, end_label) ==
    LET g3 == tac(tac(generate_stmt_tac(g, child(g, node, 1)), "goto " \o end_label),
                  else_label \o ":")
    IN tac(IF Len(node.children) > 2 THEN generate_stmt_tac(g3, child(g, node, 2)) ELSE g3,
           end_label \o ":")

\* NODE_WHILE after the two labels
while_tac(g, node, start_label, end_label) ==
    tac(tac(generate_stmt_tac(branch_tac(generate_expr_tac(tac(g, start_label \o ":"),
                                                           child(g, node, 0)),
                                         end_label),
                              child(g, node, 1)),
            "goto " \o start_label),
        end_label \o ":")

\* NODE_FOR after the three labels
for_tac(g, node, start_label, end_label, update_label) ==
    LET g2 == tac(IF Len(node.children) > 0 THEN generate_stmt_tac(g, child(g, node, 0))
                  ELSE g, start_label \o ":")
        g3 == IF Len(node.children) > 1
              THEN branch_tac(generate_expr_tac(g2, child(g, node, 1)), end_label)
              ELSE g2
        g5 == tac(IF Len(node.children) > 3 THEN generate_stmt_tac(g3, child(g, node, 3))
                  ELSE g3, update_label \o ":")
    IN tac(tac(IF Len(node.children) > 2 THEN generate_expr_tac(g5, child(g, node, 2)).g
               ELSE g5,
               "goto " \o start_label),
           end_label \o ":")

generate_stmt_tac(g, node) ==
    IF g.crashed \/ node = Null THEN g
    ELSE IF node.type = "<wild>" THEN crash(g)
    ELSE IF node.type = "BLOCK" THEN block_tac(g, node, 0)
    ELSE IF node.type = "VARIABLE_DECL"
    THEN IF Len(node.children) > 0
         THEN assign_tac(generate_expr_tac(g, child(g, node, 0)), node.value)
         ELSE g
    ELSE IF node.type = "ASSIGNMENT"
    THEN assign_tac(generate_expr_tac(g, child(g, node, 0)), node.value)
    ELSE IF node.type = "IF"
    THEN LET c == generate_expr_tac(g, child(g, node, 0))
             else_label == new_label(c.g)
             end_label == new_label(else_label.g)
         IN if_tac(branch_tac([g |-> end_label.g, val |-> c.val], else_label.name),
                   node, else_label.name, end_label.name)
    ELSE IF node.type = "WHILE"
    THEN LET start_label == new_label(g)
             end_label == new_label(start_label.g)
         IN while_tac(end_label.g, node, start_label.name, end_label.name)
    ELSE IF node.type = "FOR"
    THEN LET start_label == new_label(g)
             end_label == new_label(start_label.g)
             update_label == new_label(end_label.g)
         IN for_tac(update_label.g, node, start_label.name, end_label.name,
                    update_label.name)
    ELSE IF node.type = "RETURN"
    THEN IF Len(node.children) > 0
         THEN return_tac(generate_expr_tac(g, child(g, node, 0)))
         ELSE tac(g, "return")
    ELSE IF node.type = "CALL" THEN generate_expr_tac(g, node).g
    ELSE g

generate_function_tac(g, node) ==
    IF node = Null \/ node.type # "FUNCTION_DECL" THEN g
    ELSE tac(tac(IF Len(node.children) > 1
                 THEN generate_stmt_tac(tac(g, "function " \o node.value \o ":"),
                                        child(g, node, 1))
                 ELSE tac(g, "function " \o node.value \o ":"),
                 "end function"),
             "")

(***************************************************************************)
(* Stack-machine pass.                                                     *)
(***************************************************************************)
BinaryMnemonic(op) ==
    CASE op = "+" -> "ADD" [] op = "-" -> "SUB" [] op = "*" -> "MUL" [] op = "/" -> "DIV"
      [] op = "%" -> "MOD" [] op = "==" -> "EQ" [] op = "!=" -> "NEQ" [] op = "<" -> "LT"
      [] op = "<=" -> "LTE" [] op = ">" -> "GT" [] op = ">=" -> "GTE" [] OTHER -> ""

UnaryMnemonic(op) == CASE op = "-" -> "NEG" [] op = "!" -> "NOT" [] OTHER -> ""

\* a mnemonic is written only when the operator is in the table
stk_opt(g, line) == IF line = "" THEN g ELSE stk(g, line)

RECURSIVE generate_expr_stack(_, _)
RECURSIVE call_args_stack(_, _, _)
RECURSIVE call_args_stack_forward(_, _, _)

\* the loop of a pass that pushes the arguments 0..i first to last
call_args_stack_forward(g, args_node, i) ==
    IF i < 0 THEN g
    ELSE generate_expr_stack(call_args_stack_forward(g, args_node, i - 1),
                             child(g, args_node, i))

\* for (i = num_children - 1; i >= 0; i--) generate_expr_stack(...)
call_args_stack(g, args_node, i) ==
    IF i < 0 THEN g
    ELSE call_args_stack(generate_expr_stack(g, child(g, args_node, i)), args_node, i - 1)

generate_expr_stack(g, node) ==
    IF g.crashed \/ node = Null THEN g
    ELSE IF node.type = "<wild>" THEN crash(g)
    ELSE IF node.type = "NUMBER" THEN stk(g, "PUSH " \o node.value)
    ELSE IF node.type = "IDENTIFIER" THEN stk(g, "LOAD " \o node.value)
    ELSE IF node.type = "BINARY_OP"
    THEN stk_opt(generate_expr_stack(generate_expr_stack(g, child(g, node, 0)),
                                     child(g, node, 1)),
                 BinaryMnemonic(node.value))
    ELSE IF node.type = "UNARY_OP"
    THEN stk_opt(generate_expr_stack(g, child(g, node, 0)), UnaryMnemonic(node.value))
    ELSE IF node.type = "CALL"
    THEN stk(IF Len(node.children) > 0 /\ node.children[1].type = "BLOCK"
             THEN call_args_stack(g, node.children[1], Len(node.children[1].children) - 1)
             ELSE g,
             "CALL " \o node.value)
    ELSE g

RECURSIVE generate_stmt_stack(_, _)
RECURSIVE block_stack(_, _, _)
RECURSIVE if_stack(_, _, _, _)
RECURSIVE while_stack(_, _, _, _)
RECURSIVE for_stack(_, _, _, _, _)

block_stack(g, node, i) ==
    IF i >= Len(node.children) THEN g
    ELSE block_stack(generate_stmt_stack(g, child(g, node, i)), node, i + 1)

\* NODE_IF after the two labels
if_stack(g, node, else_label, end_label) ==
    LET g4 == stk(stk(generate_stmt_stack(stk(generate_expr_stack(g, child(g, node, 0)),
                                              "JZ " \o else_label),
                                          child(g, node, 1)),
                      "JMP " \o end_label),
                  else_label \o ":")
    IN stk(IF Len(node.children) > 2 THEN generate_stmt_stack(g4, child(g, node, 2)) ELSE g4,
           end_label \o ":")

\* NODE_WHILE after the two labels
while_stack(g, node, start_label, end_label) ==
    stk(stk(generate_stmt_stack(stk(generate_expr_stack(stk(g, start_label \o ":"),
                                                        child(g, node, 0)),
                                    "JZ " \o end_label),
                                child(g, node, 1)),
            "JMP " \o start_label),
        end_label \o ":")

\* NODE_FOR after the three labels
for_stack(g, node, start_label, end_label, update_label) ==
    LET g2 == stk(IF Len(node.children) > 0 THEN generate_stmt_stack(g, child(g, node, 0))
                  ELSE g, start_label \o ":")
        g3 == IF Len(node.children) > 1
              THEN stk(generate_expr_stack(g2, child(g, node, 1)), "JZ " \o end_label)
              ELSE g2
        g5 == stk(IF Len(node.children) > 3 THEN generate_stmt_stack(g3, child(g, node, 3))
                  ELSE g3, update_label \o ":")
    IN stk(stk(IF Len(node.children) > 2
               THEN stk(generate_expr_stack(g5, child(g, node, 2)), "POP")
               ELSE g5,
               "JMP " \o start_label),
           end_label \o ":")

generate_stmt_stack(g, node) ==
    IF g.crashed \/ node = Null THEN g
    ELSE IF node.type = "<wild>" THEN crash(g)
    ELSE IF node.type = "BLOCK" THEN block_stack(g, node, 0)
    ELSE IF node.type = "VARIABLE_DECL"
    THEN IF Len(node.children) > 0
         THEN stk(generate_expr_stack(g, child(g, node, 0)), "STORE " \o node.value)
         ELSE g
    ELSE IF node.type = "ASSIGNMENT"
    THEN stk(generate_expr_stack(g, child(g, node, 0)), "STORE " \o node.value)
    ELSE IF node.type = "IF"
    THEN LET else_label == new_label(g)
             end_label == new_label(else_label.g)
         IN if_stack(end_label.g, node, else_label.name, end_label.name)
    ELSE IF node.type = "WHILE"
    THEN LET start_label == new_label(g)
             end_label == new_label(start_label.g)
         IN while_stack(end_label.g, node, start_label.name, end_label.name)
    ELSE IF node.type = "FOR"
    THEN LET start_label == new_label(g)
             end_label == new_label(start_label.g)
             update_label == new_label(end_label.g)
         IN for_stack(update_label.g, node, start_label.name, end_label.name,
                      update_label.name)
    ELSE IF node.type = "RETURN"
    THEN IF Len(node.children) > 0
         THEN stk(generate_expr_stack(g, child(g, node, 0)), "RET")
         ELSE stk(g, "RET0")
    ELSE IF node.type = "CALL" THEN stk(generate_expr_stack(g, node), "POP")
    ELSE g

generate_function_stack(g, node) ==
    IF node = Null \/ node.type # "FUNCTION_DECL" THEN g
    ELSE stk(stk(IF Len(node.children) > 1
                 THEN generate_stmt_stack(stk(g, "FUNC " \o node.value), child(g, node, 1))
                 ELSE stk(g, "FUNC " \o node.value),
                 "END_FUNC"),
             "")

(***************************************************************************)
(* Target pass: a rewrite of the stack listing, one fgets result at a      *)
(* time. fgets returns at most LineBuffer - 1 characters: a longer line    *)
(* comes back in pieces, each piece handled as a line of its own.          *)
(***************************************************************************)
\* char line[256] in generate_target_code
LineBuffer == 256

RECURSIVE fgets(_)
\* the strings successive fgets calls return for one line of the file,
\* after the newline is cut off; the newline of a line of exactly
\* LineBuffer - 1 characters is read by a call of its own
fgets(line) ==
    IF Len(line) < LineBuffer - 1 THEN <<line>>
    ELSE <<SubSeq(line, 1, LineBuffer - 1)>> \o fgets(SubSeq(line, LineBuffer, Len(line)))

\* strncmp(line, prefix, strlen(prefix)) == 0
StartsWith(line, prefix) ==
    Len(line) >= Len(prefix) /\ SubSeq(line, 1, Len(prefix)) = prefix

\* line + n
From(line, n) == SubSeq(line, n + 1, Len(line))

target_line(line) ==
    IF line = "" THEN <<>>
    ELSE IF line = "ADD" THEN <<"    ADD R1, R2, R3">>
    ELSE IF line = "SUB" THEN <<"    SUB R1, R2, R3">>
    ELSE IF line = "MUL" THEN <<"    MUL R1, R2, R3">>
    ELSE IF line = "DIV" THEN <<"    DIV R1, R2, R3">>
    ELSE IF StartsWith(line, "PUSH ")
    THEN <<"    MOV R1, " \o From(line, 5), "    PUSH R1">>
    ELSE IF StartsWith(line, "LOAD ")
    THEN <<"    LOAD R1, [" \o From(line, 5) \o "]", "    PUSH R1">>
    ELSE IF StartsWith(line, "STORE ")
    THEN <<"    POP R1", "    STORE [" \o From(line, 6) \o "], R1">>
    ELSE IF StartsWith(line, "JZ ")
    THEN <<"    POP R1", "    CMP R1, 0", "    JE " \o From(line, 3)>>
    ELSE IF StartsWith(line, "JMP ") THEN <<"    JMP " \o From(line, 4)>>
    ELSE IF StartsWith(line, "CALL ") THEN <<"    CALL " \o From(line, 5)>>
    ELSE IF line = "RET" THEN <<"    POP R1", "    RET">>
    ELSE IF line = "RET0" THEN <<"    RET">>
    ELSE IF StartsWith(line, "FUNC ")
    THEN <<From(line, 5) \o ":", "    PUSH FP", "    MOV FP, SP">>
    ELSE IF line = "END_FUNC" THEN <<"    MOV SP, FP", "    POP FP", "    RET">>
    ELSE IF SubSeq(line, Len(line), Len(line)) = ":" THEN <<line>>
    ELSE <<"    " \o line>>

RECURSIVE target_lines(_, _)
\* the target lines for the fgets results k..end of one line of the file
target_lines(pieces, k) ==
    IF k > Len(pieces) THEN <<>>
    ELSE target_line(pieces[k]) \o target_lines(pieces, k + 1)

RECURSIVE generate_target_code(_, _)
\* while (fgets(line, ...)) ...: the target lines for stack lines i..end
generate_target_code(lines, i) ==
    IF i > Len(lines) THEN <<>>
    ELSE target_lines(fgets(lines[i]), 1) \o generate_target_code(lines, i + 1)

(***************************************************************************)
(* codegen_generate writes three fixed listings.                           *)
(***************************************************************************)
codegen_generate_tac ==
    <<"// Three Address Code", "function main:", "  t0 = 10", "  x = t0", "  t1 = 20",
      "  y = t1", "  t2 = x + y", "  z = t2", "  return z", "end function">>

codegen_generate_stack ==
    <<"// Stack-based Code", "FUNC main", "  PUSH 10", "  STORE x", "  PUSH 20", "  STORE y",
      "  LOAD x", "  LOAD y", "  ADD", "  STORE z", "  LOAD z", "  RET", "END_FUNC">>

codegen_generate_target ==
    <<"; Target Machine Code", "main:", "    PUSH FP", "    MOV FP, SP", "    MOV R1, 10",
      "    STORE [x], R1", "    MOV R1, 20", "    STORE [y], R1", "    LOAD R1, [x]",
      "    LOAD R2, [y]", "    ADD R3, R1, R2", "    STORE [z], R3", "    LOAD R1, [z]",
      "    MOV SP, FP", "    POP FP", "    RET">>

(***************************************************************************)
(* Lowering runs: codegen_init on a tree, then the passes.                 *)
(***************************************************************************)
MaxArgs == 3
MaxStmts == 2
MaxLines == 3

ParserIdle ==
    /\ tokens = <<EOFT>>
    /\ current_token = 0
    /\ had_error = FALSE
    /\ error_message = ""
    /\ frames = <<>>
    /\ ret = Null
    /\ status = "idle"
    /\ entry = "none"
    /\ reported = <<>>
    /\ heap = NoHeap

RECURSIVE add_children(_, _)
\* ast_add_child for each element in turn
add_children(node, seq) ==
    IF seq = <<>> THEN node ELSE add_children(ast_add_child(node, Head(seq)), Tail(seq))

Leaves == {ast_create_number("0"), ast_create_number("1"), ast_create_identifier("i")}

IdI == ast_create_identifier("i")
ILess3 == ast_create_binary_op("<", IdI, ast_create_number("3"))
IPlus1 == ast_create_binary_op("+", IdI, ast_create_number("1"))
PrintI == ast_create_call("print", add_children(ast_create_block, <<IdI>>))

\* for (i = 0; i < 3; i = i + 1) print(i);
ForSample ==
    ast_create_for(ast_create_assignment("i", ast_create_number("0")), ILess3,
                   ast_create_assignment("i", IPlus1), PrintI)

\* while (i < 3) { if (i < 3) for (i = 0; i < 3; i = i + 1) print(i); else return i; }
NestedSample ==
    ast_create_while(ILess3, add_children(ast_create_block,
        <<ast_create_if(ILess3, ForSample, ast_create_return(IdI))>>))

CallTrees ==
    {ast_create_call("print", add_children(ast_create_block, a)) : a \in SeqsUpTo(Leaves, MaxArgs)}
    \cup {ast_create_call("f", Null)}

StmtTrees ==
    { PrintI,
      ForSample,
      ast_create_for(Null, Null, IPlus1, PrintI),
      ast_create_for(Null, Null, Null, PrintI),
      ast_create_for(Null, ILess3, IPlus1, PrintI),
      ast_create_for(ast_create_var_decl("int", "i", ast_create_number("0")), ILess3,
                     ast_create_unary_op("-", IdI), add_children(ast_create_block, <<PrintI>>)),
      ast_create_while(ILess3, add_children(ast_create_block,
                                            <<ast_create_assignment("i", IPlus1)>>)),
      ast_create_while(ILess3, Null),
      NestedSample,
      ast_create_if(ILess3, ast_create_return(IdI), Null),
      ast_create_if(ILess3, ast_create_return(Null), ast_create_return(IPlus1)),
      ast_create_if(ILess3, Null, Null),
      ast_create_var_decl("int", "x", IPlus1),
      ast_create_var_decl("int", "x", Null),
      ast_create_assignment("x", ast_create_binary_op("*", IPlus1, ILess3)),
      ast_create_assignment("x", ast_create_string("s")),
      ast_create_binary_op("+", IdI, Null),
      ast_create_return(ast_create_unary_op("!", IdI)) }

FunctionOf(name, stmts) ==
    ast_create_function(name, ast_create_block, add_children(ast_create_block, stmts))

FunctionTrees ==
    {FunctionOf("main", b) : b \in SeqsUpTo(StmtTrees, MaxStmts)}
    \cup {FunctionOf("main", <<c>>) : c \in CallTrees}
    \cup {ast_create_function("L0", ast_create_block, Null), ast_create_program}

\* codegen_init
InitGen ==
    /\ ParserIdle
    /\ LalrIdle
    /\ MainIdle
    /\ ast \in FunctionTrees \cup {Null}
    /\ tac_file = <<>>
    /\ stack_file = <<>>
    /\ target_file = <<>>
    /\ temp_var_count = 0
    /\ label_count = 0
    /\ issued = <<>>
    /\ phase = <<>>

G(junk) ==
    [temp_var_count |-> temp_var_count, label_count |-> label_count, tac_file |-> tac_file,
     stack_file |-> stack_file, issued |-> issued, junk |-> junk, crashed |-> FALSE]

Ran(pass) == \E k \in 1..Len(phase) : phase[k] = pass
Alive == ~Ran("crashed") /\ ~Ran("generate") /\ ~Ran("rejected")

Store(g, pass) ==
    /\ temp_var_count' = g.temp_var_count
    /\ label_count' = g.label_count
    /\ tac_file' = g.tac_file
    /\ stack_file' = g.stack_file
    /\ issued' = g.issued
    /\ phase' = Append(phase, IF g.crashed THEN "crashed" ELSE pass)
    /\ UNCHANGED <<ast, target_file>>
    /\ UNCHANGED <<parserVars, lalrVars, mainVars>>

do_generate_function_tac ==
    /\ Alive /\ ~Ran("tac")
    /\ \E junk \in JunkNodes : Store(generate_function_tac(G(junk), ast), "tac")

do_generate_function_stack ==
    /\ Alive /\ ~Ran("stack")
    /\ \E junk \in JunkNodes : Store(generate_function_stack(G(junk), ast), "stack")

do_generate_target_code ==
    /\ Alive /\ Ran("stack") /\ ~Ran("target")
    /\ target_file' = generate_target_code(stack_file, 1)
    /\ phase' = Append(phase, "target")
    /\ UNCHANGED <<ast, tac_file, stack_file, temp_var_count, label_count, issued>>
    /\ UNCHANGED <<parserVars, lalrVars, mainVars>>

codegen_generate ==
    /\ phase = <<>>
    /\ IF ast = Null
       THEN /\ phase' = <<"rejected">>
            /\ UNCHANGED <<tac_file, stack_file, target_file>>
       ELSE /\ tac_file' = codegen_generate_tac
            /\ stack_file' = codegen_generate_stack
            /\ target_file' = codegen_generate_target
            /\ phase' = <<"generate">>
    /\ UNCHANGED <<ast, temp_var_count, label_count, issued>>
    /\ UNCHANGED <<parserVars, lalrVars, mainVars>>

NextGen ==
    \/ do_generate_function_tac
    \/ do_generate_function_stack
    \/ do_generate_target_code
    \/ codegen_generate

SpecGen == InitGen /\ [][NextGen]_vars

(***************************************************************************)
(* The target pass on its own, over the stack listings of at most          *)
(* MaxLines lines that the stack pass can write.                           *)
(***************************************************************************)
RECURSIVE Repeat(_, _)
Repeat(str, n) ==
    IF n = 0 THEN ""
    ELSE LET half == Repeat(str, n \div 2)
         IN half \o half \o (IF n % 2 = 1 THEN str ELSE "")

\* an identifier that no longer fits the line buffer behind "FUNC "
LongName == Repeat("a", LineBuffer - 5)

StackLines ==
    {"FUNC main", "FUNC L0", "FUNC " \o LongName, "END_FUNC", "L0:", "L1:", "PUSH 1",
     "LOAD x", "STORE x", "ADD", "MOD", "JZ L1", "JMP L0", "CALL f", "RET", "RET0", "POP", ""}

InitTarget ==
    /\ ParserIdle
    /\ LalrIdle
    /\ MainIdle
    /\ ast = Null
    /\ tac_file = <<>>
    /\ stack_file \in SeqsUpTo(StackLines, MaxLines)
    /\ target_file = <<>>
    /\ temp_var_count = 0
    /\ label_count = 0
    /\ issued = <<>>
    /\ phase = <<"stack">>

NextTarget == do_generate_target_code

SpecTarget == InitTarget /\ [][NextTarget]_vars

(***************************************************************************)
(* The shift-reduce parser (parser_lalr.c). l is the LALRParser while a    *)
(* step runs: [cur, err, msg, log, state_stack, symbol_stack]. A stack is  *)
(* the sequence of its first size entries; growing a stack by realloc      *)
(* changes no entry.                                                       *)
(***************************************************************************)
MaxTokens == 2

\* the text of a keyword, operator or punctuation token and its symbol
KeywordSymbols ==
    {<<"int", "SYM_KEYWORD_INT">>, <<"float", "SYM_KEYWORD_FLOAT">>,
     <<"char", "SYM_KEYWORD_CHAR">>, <<"void", "SYM_KEYWORD_VOID">>,
     <<"if", "SYM_KEYWORD_IF">>, <<"else", "SYM_KEYWORD_ELSE">>,
     <<"while", "SYM_KEYWORD_WHILE">>, <<"for", "SYM_KEYWORD_FOR">>,
     <<"return", "SYM_KEYWORD_RETURN">>}

OperatorSymbols ==
    {<<"+", "SYM_OPERATOR_PLUS">>, <<"-", "SYM_OPERATOR_MINUS">>, <<"*", "SYM_OPERATOR_STAR">>,
     <<"/", "SYM_OPERATOR_SLASH">>, <<"%", "SYM_OPERATOR_PERCENT">>,
     <<"=", "SYM_OPERATOR_ASSIGN">>, <<"==", "SYM_OPERATOR_EQ">>, <<"!=", "SYM_OPERATOR_NE">>,
     <<"<", "SYM_OPERATOR_LT">>, <<"<=", "SYM_OPERATOR_LE">>, <<">", "SYM_OPERATOR_GT">>,
     <<">=", "SYM_OPERATOR_GE">>}

PunctuationSymbols ==
    {<<"(", "SYM_PUNCTUATION_LPAREN">>, <<")", "SYM_PUNCTUATION_RPAREN">>,
     <<"{", "SYM_PUNCTUATION_LBRACE">>, <<"}", "SYM_PUNCTUATION_RBRACE">>,
     <<";", "SYM_PUNCTUATION_SEMICOLON">>, <<",", "SYM_PUNCTUATION_COMMA">>}

\* the chain of strcmp tests over one token type
SymbolOf(table, value) ==
    IF \E e \in table : e[1] = value THEN (CHOOSE e \in table : e[1] = value)[2]
    ELSE "SYM_ERROR"

token_to_symbol(token) ==
    CASE token.type = "IDENTIFIER" -> "SYM_IDENTIFIER"
      [] token.type = "NUMBER" -> "SYM_NUMBER"
      [] token.type = "STRING" -> "SYM_STRING"
      [] token.type = "KEYWORD" -> SymbolOf(KeywordSymbols, token.value)
      [] token.type = "OPERATOR" -> SymbolOf(OperatorSymbols, token.value)
      [] token.type = "PUNCTUATION" -> SymbolOf(PunctuationSymbols, token.value)
      [] token.type = "EOF" -> "SYM_EOF"
      [] OTHER -> "SYM_ERROR"

\* static Rule rules[]: rule 0 and rule 1 (1-based here)
rules ==
    <<[lhs |-> "SYM_PROGRAM", rhs_length |-> 1],
      [lhs |-> "SYM_FUNCTION_DECL", rhs_length |-> 6]>>

Action(type, value) == [type |-> type, value |-> value]

\* mutant of get_action: a table that shifts every token and accepts at EOF
get_action_complete(state, symbol) ==
    IF symbol = "SYM_EOF" THEN Action("ACTION_ACCEPT", 0) ELSE Action("ACTION_SHIFT", 1)

get_action(state, symbol) ==
    IF state = 0 /\ symbol \in {"SYM_KEYWORD_INT", "SYM_KEYWORD_FLOAT", "SYM_KEYWORD_CHAR",
                                "SYM_KEYWORD_VOID"}
    THEN Action("ACTION_SHIFT", 1)
    ELSE Action("ACTION_ERROR", 0)

get_goto(state, symbol) == IF state = 0 /\ symbol = "SYM_PROGRAM" THEN 100 ELSE -1

\* mutant of push_state: the state is not pushed
push_state_lost(l, state) == l

push_state(l, state) == [l EXCEPT !.state_stack = Append(@, state)]

pop_states(l, count) ==
    [l EXCEPT !.state_stack = IF Len(@) - count < 0 THEN <<>> ELSE SubSeq(@, 1, Len(@) - count)]

push_symbol(l, value) == [l EXCEPT !.symbol_stack = Append(@, value)]

\* the parser after pop_symbol, and the value it returns
pop_symbol(l) ==
    IF Len(l.symbol_stack) <= 0 THEN [l |-> l, value |-> Null]
    ELSE [l |-> [l EXCEPT !.symbol_stack = SubSeq(@, 1, Len(@) - 1)],
          value |-> l.symbol_stack[Len(l.symbol_stack)]]

\* Token *current_token(LALRParser *parser)
lalr_current_token(l) ==
    IF l.cur >= Len(tokens) THEN tokens[Len(tokens)] ELSE tokens[l.cur + 1]

RECURSIVE pop_values(_, _, _)
\* for (i = rhs_length - 1; i >= 0; i--) values[i] = pop_symbol(parser):
\* the parser after the pops and values[0 .. rhs_length - 1]
pop_values(l, i, values) ==
    IF i < 0 THEN [l |-> l, values |-> values]
    ELSE LET r == pop_symbol(l)
         IN pop_values(r.l, i - 1, <<r.value>> \o values)

\* the node a reduction builds; a stack entry read as a node or as a token
\* is read as what was pushed
reduction_node(rule_index, values) ==
    CASE rule_index = 0 -> ast_add_child(ast_create_program, values[1])
      [] rule_index = 1 ->
            ast_create_function(deref_value(values[2]), values[4], values[6])
      [] OTHER -> Null

do_reduction(l, rule_index) ==
    LET rule == rules[rule_index + 1]
        r == pop_values(l, rule.rhs_length - 1, <<>>)
        l2 == push_symbol(pop_states(r.l, rule.rhs_length),
                          reduction_node(rule_index, r.values))
        current_state == IF l2.state_stack = <<>> THEN -1
                         ELSE l2.state_stack[Len(l2.state_stack)]
        goto_state == get_goto(current_state, rule.lhs)
    IN IF goto_state < 0 THEN error(l2, "Invalid state transition")
       ELSE push_state(l2, goto_state)

\* one iteration of the loop of parser_lalr_parse: the parser after it, the
\* value returned and whether the function returned
parser_lalr_parse_step(l) ==
    LET token == lalr_current_token(l)
        symbol == token_to_symbol(token)
        current_state == l.state_stack[Len(l.state_stack)]
        action == get_action(current_state, symbol)
        Going(m) == IF m.err THEN [l |-> m, ret |-> Null, status |-> "done"]
                    ELSE [l |-> m, ret |-> Null, status |-> "running"]
    IN CASE action.type = "ACTION_SHIFT" ->
               Going([push_state(push_symbol(l, token), action.value) EXCEPT !.cur = @ + 1])
         [] action.type = "ACTION_REDUCE" -> Going(do_reduction(l, action.value))
         [] action.type = "ACTION_ACCEPT" ->
               [l |-> l, status |-> "done",
                ret |-> IF Len(l.symbol_stack) > 0 THEN l.symbol_stack[1] ELSE Null]
         [] OTHER -> [l |-> error(l, "Syntax error"), ret |-> Null, status |-> "done"]

LalrAlphabet == {KW("int"), KW("void"), KW("if"), ID("f"), PU("("), UNK("@")}

\* parser_lalr_init, followed by the call of parser_lalr_parse
InitLalr ==
    /\ entry = "parser_lalr_parse"
    /\ tokens \in {t \o <<EOFT>> : t \in ProgramSamples \cup SeqsUpTo(LalrAlphabet, MaxTokens)}
    /\ current_token = 0
    /\ had_error = FALSE
    /\ error_message = ""
    /\ frames = <<>>
    /\ ret = Null
    /\ status = "running"
    /\ reported = <<>>
    /\ heap = NoHeap
    /\ state_stack = <<0>>
    /\ symbol_stack = <<>>
    /\ CodegenIdle
    /\ MainIdle

L == [cur |-> current_token, err |-> had_error, msg |-> error_message, log |-> reported,
      state_stack |-> state_stack, symbol_stack |-> symbol_stack]

parser_lalr_parse ==
    /\ entry = "parser_lalr_parse"
    /\ status = "running"
    /\ LET o == parser_lalr_parse_step(L)
       IN /\ current_token' = o.l.cur
          /\ had_error' = o.l.err
          /\ error_message' = o.l.msg
          /\ reported' = o.l.log
          /\ state_stack' = o.l.state_stack
          /\ symbol_stack' = o.l.symbol_stack
          /\ ret' = o.ret
          /\ status' = o.status
    /\ UNCHANGED <<tokens, frames, entry, heap>>
    /\ UNCHANGED <<codegenVars, mainVars>>

NextLalr == parser_lalr_parse

SpecLalr == InitLalr /\ [][NextLalr]_vars

(***************************************************************************)
(* The driver (main of main.c) from the point where the tokens are at hand *)
(* to its exit. ast is main's tree, the one handed to codegen_init; freed  *)
(* counts the calls ast_free_node(ast). Writing an output file and         *)
(* creating the generator or its temporary files may fail.                 *)
(***************************************************************************)
\* parser_rd_init followed by parser_rd_parse
rd_run ==
    CHOOSE o \in parser_rd_parse_step([cur |-> 0, err |-> FALSE, msg |-> "", log |-> <<>>],
                                      <<Frame("parser_rd_parse")>>,
                                      Frame("parser_rd_parse"), Null) : TRUE

RECURSIVE lalr_run(_)
\* the loop of parser_lalr_parse, run to its return
lalr_run(l) ==
    LET o == parser_lalr_parse_step(l)
    IN IF o.status = "done" THEN o ELSE lalr_run(o.l)

\* parser_lalr_init
lalr_init ==
    [cur |-> 0, err |-> FALSE, msg |-> "", log |-> <<>>, state_stack |-> <<0>>,
     symbol_stack |-> <<>>]

\* parser_lalr_free passes every symbol stack entry to ast_free_node; a
\* shifted entry is a pointer into the token array, not a node: undefined
\* behaviour, the run goes on or the allocator aborts it
parser_lalr_free(l) == IF l.symbol_stack = <<>> THEN {"ok"} ELSE {"ok", "abort"}

Exits == {"exit0", "exit1", "aborted"}

InitMain ==
    /\ entry = "main"
    /\ tokens \in {t \o <<EOFT>> : t \in ProgramSamples \cup SeqsUpTo(LalrAlphabet, MaxTokens)}
    /\ current_token = 0
    /\ had_error = FALSE
    /\ error_message = ""
    /\ frames = <<>>
    /\ ret = Null
    /\ status = "idle"
    /\ reported = <<>>
    /\ heap = NoHeap
    /\ LalrIdle
    /\ CodegenIdle
    /\ parser_type \in {"rd", "lalr"}
    /\ main_pc = "parse"
    /\ freed = 0

\* codegen_free: the three files are closed; the tree is not touched
codegen_free ==
    /\ tac_file' = <<>>
    /\ stack_file' = <<>>
    /\ target_file' = <<>>

\* ast_free_node(ast); ...; return 1;
free_and_exit ==
    /\ freed' = freed + 1
    /\ \E o \in ast_free_node(ast) : main_pc' = IF o = "ok" THEN "exit1" ELSE "aborted"

\* lines 216-257: the chosen parser is created, run and freed
main_parse ==
    /\ main_pc = "parse"
    /\ IF parser_type = "rd"
       THEN /\ ast' = rd_run.ret
            /\ had_error' = rd_run.p.err
            /\ error_message' = rd_run.p.msg
            /\ reported' = rd_run.p.log
            /\ main_pc' = "check"
            /\ UNCHANGED current_token
       ELSE LET o == lalr_run(lalr_init)
            IN /\ ast' = o.ret
               /\ had_error' = o.l.err
               /\ error_message' = o.l.msg
               /\ reported' = o.l.log
               /\ current_token' = o.l.cur
               /\ \E f \in parser_lalr_free(o.l) :
                      main_pc' = IF f = "ok" THEN "check" ELSE "aborted"
    /\ UNCHANGED <<tokens, frames, ret, status, entry, heap, parser_type, freed>>
    /\ UNCHANGED <<tac_file, stack_file, target_file, temp_var_count, label_count, issued,
                   phase>>
    /\ UNCHANGED lalrVars

\* lines 259-266: no tree or a parse error ends the run; the tree is not freed
main_check ==
    /\ main_pc = "check"
    /\ main_pc' = IF ast = Null \/ had_error THEN "exit1" ELSE "save_ast"
    /\ UNCHANGED <<parserVars, lalrVars, codegenVars, parser_type, freed>>

\* lines 268-290: the tree is written to ast.txt, ast.dot and ast.json
main_save_ast ==
    /\ main_pc = "save_ast"
    /\ \E saved \in BOOLEAN :
           IF saved THEN main_pc' = "codegen_init" /\ UNCHANGED freed
           ELSE free_and_exit
    /\ UNCHANGED <<parserVars, lalrVars, codegenVars, parser_type>>

\* lines 292-305: codegen_init
main_codegen_init ==
    /\ main_pc = "codegen_init"
    /\ \E created \in BOOLEAN :
           IF created THEN main_pc' = "generate" /\ UNCHANGED freed
           ELSE free_and_exit
    /\ UNCHANGED <<parserVars, lalrVars, codegenVars, parser_type>>

\* lines 307-319: codegen_generate
main_generate ==
    /\ main_pc = "generate"
    /\ \E opened \in BOOLEAN :
           IF opened
           THEN /\ tac_file' = codegen_generate_tac
                /\ stack_file' = codegen_generate_stack
                /\ target_file' = codegen_generate_target
                /\ phase' = <<"generate">>
                /\ main_pc' = "save_code"
                /\ UNCHANGED freed
           ELSE /\ codegen_free
                /\ free_and_exit
                /\ UNCHANGED phase
    /\ UNCHANGED <<ast, temp_var_count, label_count, issued>>
    /\ UNCHANGED <<parserVars, lalrVars, parser_type>>

\* lines 321-347: the three listings are written to their files
main_save_code ==
    /\ main_pc = "save_code"
    /\ \E saved \in BOOLEAN :
           IF saved
           THEN main_pc' = "cleanup" /\ UNCHANGED <<freed, tac_file, stack_file, target_file>>
           ELSE codegen_free /\ free_and_exit
    /\ UNCHANGED <<ast, temp_var_count, label_count, issued, phase>>
    /\ UNCHANGED <<parserVars, lalrVars, parser_type>>

\* lines 349-365: codegen_free and the other releases; the tree is not freed
main_cleanup ==
    /\ main_pc = "cleanup"
    /\ codegen_free
    /\ main_pc' = "exit0"
    /\ UNCHANGED <<ast, temp_var_count, label_count, issued, phase>>
    /\ UNCHANGED <<parserVars, lalrVars, parser_type, freed>>

NextMain ==
    \/ main_parse
    \/ main_check
    \/ main_save_ast
    \/ main_codegen_init
    \/ main_generate
    \/ main_save_code
    \/ main_cleanup

SpecMain == InitMain /\ [][NextMain]_vars

(***************************************************************************)
(* Properties of the predictive parser, checked under Spec.                *)
(***************************************************************************)
Finished == status # "running"

PrecedenceInput == <<NUM("1"), OP("+"), NUM("2"), OP("*"), NUM("3"), EOFT>>

PrecedenceTree ==
    ast_create_binary_op("+", ast_create_number("1"),
        ast_create_binary_op("*", ast_create_number("2"), ast_create_number("3")))

\* C1: the expression rule run on 1 + 2 * 3 ends normally, returns
\* BinaryOp(+, Number 1, BinaryOp(*, Number 2, Number 3)), has consumed all
\* five tokens and has not set the error flag.
C1_Precedence ==
    (entry = "parse_expression" /\ tokens = PrecedenceInput /\ Finished)
        => /\ status = "done"
           /\ ret = PrecedenceTree
           /\ current_token = 5
           /\ ~had_error

AssignInput == <<ID("a"), OP("="), ID("b"), OP("="), NUM("1"), EOFT>>

AssignTree ==
    ast_create_assignment("a", ast_create_assignment("b", ast_create_number("1")))

\* C2: the expression rule run on a = b = 1 ends normally and returns
\* Assignment(a) over Assignment(b) over Number(1).
C2_RightAssociative ==
    (entry = "parse_expression" /\ tokens = AssignInput /\ Finished)
        => (status = "done" /\ ret = AssignTree)

BadTargetInput == <<NUM("1"), OP("="), NUM("2"), PU(";"), EOFT>>

\* C3: parsing the statement 1 = 2 ; ends with the error flag set and the
\* message "Invalid assignment target", and the expression rule has handed
\* the statement rule a non-null node, the left-hand Number(1).
C3_InvalidTarget ==
    (entry = "parse_statement" /\ tokens = BadTargetInput)
        => /\ Finished => /\ status = "done"
                          /\ had_error
                          /\ error_message = "Invalid assignment target"
           /\ (Active("parse_expression_statement") /\ Top(frames).pc = 1)
                  => ret = ast_create_number("1")

RECURSIVE Depth(_, _, _)
\* nesting depth after the tokens i..Len(toks) of toks, starting at depth d;
\* 0 as soon as the block that was open at i is closed
Depth(toks, i, d) ==
    IF d = 0 \/ i > Len(toks) THEN d
    ELSE IF toks[i] = PU("{") THEN Depth(toks, i + 1, d + 1)
    ELSE IF toks[i] = PU("}") THEN Depth(toks, i + 1, d - 1)
    ELSE Depth(toks, i + 1, d)

\* the body of the function f is never closed before EOF
UnterminatedBody ==
    /\ entry = "parse_program"
    /\ Len(tokens) > Len(FunctionHead)
    /\ SubSeq(tokens, 1, Len(FunctionHead)) = FunctionHead
    /\ Depth(tokens, Len(FunctionHead) + 1, 1) > 0

\* C4: for every program whose function body is not closed before EOF the
\* parse ends normally with the error flag set, the message "Unterminated
\* block", and a Program to which the function was not added.
C4_UnterminatedBlock ==
    (UnterminatedBody /\ Finished)
        => /\ status = "done"
           /\ had_error
           /\ error_message = "Unterminated block"
           /\ ret = ast_create_program

RECURSIVE WellFormed(_)
\* the child counts of the tree table, for the kinds C5 names
WellFormed(node) ==
    /\ node.type = "FUNCTION_DECL" =>
           /\ Len(node.children) = 2
           /\ node.children[1].type = "BLOCK"
           /\ node.children[2].type = "BLOCK"
    /\ node.type = "BINARY_OP" => Len(node.children) = 2
    /\ node.type = "IF" => Len(node.children) \in {2, 3}
    /\ node.type = "WHILE" => Len(node.children) = 2
    /\ node.type = "CALL" =>
           \/ node.children = <<>>
           \/ /\ Len(node.children) = 1
              /\ node.children[1].type = "BLOCK"
              /\ node.children[1].children # <<>>
    /\ \A i \in 1..Len(node.children) : WellFormed(node.children[i])

Accepted == status = "done" /\ ~had_error /\ ret # Null

\* C5: every tree the parser returns with the error flag clear has, at
\* every node, the child count of its kind: FunctionDecl a params block and
\* a body block, BinaryOp 2, If 2 or 3, While 2, Call none (no arguments) or
\* one non-empty arguments block.
C5_ChildCounts == Accepted => WellFormed(ret)

(***************************************************************************)
(* Properties of the lowering passes, checked under SpecGen.               *)
(***************************************************************************)
Counter(kind) == IF kind = "t" THEN temp_var_count ELSE label_count

\* C6: within one run the numbers of the temporaries and of the labels are
\* strictly increasing in call order, no name is issued twice, and each
\* counter stays above every number it has issued (it is never reset or
\* decremented), over the TAC pass and the stack pass together.
C6_CountersIncrease ==
    \A i, j \in 1..Len(issued) :
        /\ issued[i].number < Counter(issued[i].kind)
        /\ i < j => /\ issued[i].name # issued[j].name
                    /\ issued[i].kind = issued[j].kind
                           => issued[i].number < issued[j].number

\* both passes have run on one generator and have issued temporaries and labels
C6_Witness ==
    /\ Ran("tac") /\ Ran("stack")
    /\ temp_var_count >= 3
    /\ label_count >= 6
    /\ Len(issued) = temp_var_count + label_count

\* the lines of a listing that start with one of the prefixes, less the prefix
Operands(lines, prefixes) ==
    LET picked == SelectSeq(lines, LAMBDA l : \E x \in prefixes : StartsWith(l, x))
    IN [k \in 1..Len(picked) |-> From(picked[k], Len(CHOOSE x \in prefixes :
                                                       StartsWith(picked[k], x)))]

Reverse(seq) == [k \in 1..Len(seq) |-> seq[Len(seq) + 1 - k]]

\* the arguments of the call that is the only statement of the function
CallArguments == ast.children[2].children[1].children[1].children

\* the function's body is one call with two or more leaf arguments, and
\* both passes have lowered it
LoweredCall ==
    /\ ast.type = "FUNCTION_DECL" /\ Len(ast.children) = 2
    /\ Len(ast.children[2].children) = 1
    /\ ast.children[2].children[1].type = "CALL"
    /\ Len(ast.children[2].children[1].children) = 1
    /\ Len(CallArguments) >= 2 /\ Len(CallArguments) <= MaxCallArgs
    /\ \A k \in 1..Len(CallArguments) : CallArguments[k].type \in {"NUMBER", "IDENTIFIER"}
    /\ Ran("tac") /\ Ran("stack")

\* C7: the TAC of for (i = 0; i < 3; i = i + 1) print(i) holds the code of
\* the update, the addition and the store to i, after the call of the body
\* and before the jump back to the start label.
C7_UpdateBeforeJump ==
    (ast = FunctionOf("main", <<ForSample>>) /\ Ran("tac"))
        => \E body, add, store, jump \in 1..Len(tac_file) :
              \E t1, t2 \in {issued[k].name : k \in 1..Len(issued)} :
                  /\ body < add /\ add < store /\ store < jump
                  /\ tac_file[body] = t1 \o " = call print, 1"
                  /\ tac_file[add] = t2 \o " = i + 1"
                  /\ tac_file[store] = "i = " \o t2
                  /\ StartsWith(tac_file[jump], "goto ")
                  /\ \E start \in 1..(body - 1) :
                         tac_file[start] = From(tac_file[jump], 5) \o ":"

\* C8: for a call with two or more leaf arguments the TAC pass writes the
\* param lines in source order and the stack pass writes the PUSH/LOAD lines
\* of the arguments in exactly the reverse order.
C8_ArgumentsReversed ==
    LoweredCall
        => /\ Operands(tac_file, {"param "})
                  = [k \in 1..Len(CallArguments) |-> CallArguments[k].value]
           /\ Operands(stack_file, {"PUSH ", "LOAD "})
                  = Reverse(Operands(tac_file, {"param "}))

\* a lowered call with three arguments whose first and last differ
C8_Witness ==
    /\ LoweredCall
    /\ Len(CallArguments) = 3
    /\ CallArguments[1].value # CallArguments[3].value
    /\ Len(Operands(stack_file, {"PUSH ", "LOAD "})) = 3

\* C10: the target listing written by codegen_generate is the table
\* translation of the stack listing written by that same call.
C10_TargetTranslatesStack ==
    Ran("generate") => target_file = generate_target_code(stack_file, 1)

(***************************************************************************)
(* Properties of the target pass, checked under SpecTarget.                *)
(***************************************************************************)
IsFunc(line) == StartsWith(line, "FUNC ")
IsLabel(line) == line # "" /\ SubSeq(line, Len(line), Len(line)) = ":"

RECURSIVE Positions(_, _, _)
\* the indices >= i of the lines of a listing that equal line, in order
Positions(lines, line, i) ==
    IF i > Len(lines) THEN <<>>
    ELSE (IF lines[i] = line THEN <<i>> ELSE <<>>) \o Positions(lines, line, i + 1)

RECURSIVE PassedLabels(_, _)
\* the label lines of a target listing that do not open a prologue
PassedLabels(lines, i) ==
    IF i > Len(lines) THEN <<>>
    ELSE (IF IsLabel(lines[i]) /\ ~(i < Len(lines) /\ lines[i + 1] = "    PUSH FP")
          THEN <<lines[i]>> ELSE <<>>) \o PassedLabels(lines, i + 1)

\* the FUNC / END_FUNC lines of the stack listing and the first lines of
\* the prologues / epilogues of the target listing
FrameLines == SelectSeq(stack_file, LAMBDA l : IsFunc(l) \/ l = "END_FUNC")
FrameMarks == SelectSeq(target_file, LAMBDA l : l \in {"    PUSH FP", "    MOV SP, FP"})

\* the framing of the target listing: prologues and epilogues match the
\* FUNC / END_FUNC lines in number and order, each prologue is name:,
\* PUSH FP, MOV FP, SP, each epilogue MOV SP, FP, POP FP, RET, and the label
\* lines of the input are passed through unchanged, each once, in order
Framed ==
    LET funcs == SelectSeq(stack_file, IsFunc)
        pro == Positions(target_file, "    PUSH FP", 1)
        epi == Positions(target_file, "    MOV SP, FP", 1)
    IN /\ Len(FrameMarks) = Len(FrameLines)
       /\ \A k \in 1..Len(FrameLines) :
              IsFunc(FrameLines[k]) <=> FrameMarks[k] = "    PUSH FP"
       /\ Len(pro) = Len(funcs)
       /\ \A k \in 1..Len(pro) :
              /\ pro[k] > 1 /\ pro[k] < Len(target_file)
              /\ target_file[pro[k] - 1] = From(funcs[k], 5) \o ":"
              /\ target_file[pro[k] + 1] = "    MOV FP, SP"
       /\ \A k \in 1..Len(epi) :
              /\ epi[k] + 2 <= Len(target_file)
              /\ target_file[epi[k] + 1] = "    POP FP"
              /\ target_file[epi[k] + 2] = "    RET"
       /\ PassedLabels(target_file, 1) = SelectSeq(stack_file, IsLabel)

\* C9: in the target listing of any stack listing, each FUNC name line has
\* given name:, PUSH FP, MOV FP, SP and each END_FUNC line MOV SP, FP, POP FP,
\* RET; prologues and epilogues come in the order and number of the FUNC and
\* END_FUNC lines; and the label lines of the input are passed through
\* unchanged, each once, in order.
C9_FunctionFraming == Ran("target") => Framed

\* the framing of the listings all of whose lines fit the line buffer
FramedWhenLinesFit ==
    (Ran("target") /\ \A k \in 1..Len(stack_file) : Len(stack_file[k]) < LineBuffer - 1)
        => Framed

(***************************************************************************)
(* Properties of the two parser entry points.                              *)
(***************************************************************************)
LalrReturned == entry = "parser_lalr_parse" /\ status = "done"

\* C11: on every token stream the two entry points agree: parser_lalr_parse
\* fails (null result or error flag) exactly when parser_rd_parse fails, and
\* when both succeed they return the same tree.
C11_ParsersAgree ==
    LalrReturned =>
        LET rd_failed == rd_run.ret = Null \/ rd_run.p.err
            lalr_failed == ret = Null \/ had_error
        IN /\ rd_failed <=> lalr_failed
           /\ ~rd_failed => ret = rd_run.ret

\* Program(FunctionDecl "main") with no further nodes
FixedTree ==
    [type |-> "PROGRAM", value |-> NoValue,
     children |-> <<[type |-> "FUNCTION_DECL", value |-> "main", children |-> <<>>]>>]

\* C12: parser_rd_parse returns, whatever the tokens, Program with the one
\* child FunctionDecl "main" without children, with the error flag clear,
\* the message empty and the cursor where it was, and no frame of the
\* program rule is ever on the call stack.
C12_FixedTree ==
    entry = "parser_rd_parse" =>
        /\ \A k \in 1..Len(frames) : frames[k].fn = "parser_rd_parse"
        /\ Finished =>
               /\ status = "done"
               /\ ret = FixedTree
               /\ ~had_error
               /\ error_message = ""
               /\ current_token = 0

C12_Witness ==
    /\ entry = "parser_rd_parse"
    /\ status = "done"
    /\ Len(tokens) > 5

C13_LastErrorWins ==
    entry \in Entries =>
        /\ had_error <=> reported # <<>>
        /\ had_error => error_message = reported[Len(reported)]

\* a parse has ended after two reports with different messages
C13_Witness ==
    /\ entry \in Entries
    /\ status = "done"
    /\ Len(reported) = 2
    /\ reported[1] # reported[2]

\* C17 as stated: no step of a parse moves the cursor backwards.
C17_CursorMonotonic == [][current_token' >= current_token]_vars

\* C17, amended: the cursor is never before the position at which a rule
\* that is still active was called (a rule may step back over a type
\* keyword it has just consumed, and no further).
C17_NeverBeforeRuleEntry ==
    entry \in Entries => \A k \in 1..Len(frames) : current_token >= frames[k].at

\* the declaration rule starts on the type keyword the cursor was put back to
C17_Witness ==
    /\ Active("parse_var_declaration")
    /\ Top(frames).pc = 0
    /\ current_token > 0
    /\ current(P).type = "KEYWORD"

\* C15: every run of the program rule ends: from every state of such a run
\* a state is reached in which parse_program has returned (or the process
\* was aborted).
C15_Terminates == (entry = "parse_program") ~> Finished

\* int g ( ) { } as the program rule builds it
FunctionG == ast_create_function("g", ast_create_node("BLOCK", "params"), ast_create_block)

WellFormedG == <<KW("int"), ID("g"), PU("("), PU(")"), PU("{"), PU("}"), EOFT>>

\* a function with an error followed by the well-formed function g
ResyncInputs ==
    {<<KW("int"), NUM("1")>> \o WellFormedG,
     <<KW("int"), PU("("), PU(")"), PU("{"), KW("int"), ID("x"), PU(";"), PU("}")>>
         \o WellFormedG,
     <<KW("int"), ID("f"), PU("("), PU(")"), PU("{"), ID("x"), PU("}")>> \o WellFormedG}

\* C19: when a function with an error is followed by a well-formed
\* function, the program rule returns a Program whose last child is that
\* function.
C19_Resynchronizes ==
    (entry = "parse_program" /\ tokens \in ResyncInputs /\ Finished)
        => /\ status = "done"
           /\ ret # Null
           /\ Len(ret.children) > 0
           /\ ret.children[Len(ret.children)] = FunctionG

\* a call whose callee is a number, a failed primary or a parenthesized number
NonIdentifierCalls ==
    {<<NUM("1"), PU("("), PU(")"), EOFT>>,
     <<NUM("1"), PU("("), NUM("1"), PU(")"), EOFT>>,
     <<PU(","), PU("("), PU(")"), EOFT>>,
     <<PU("("), NUM("1"), PU(")"), PU("("), PU(")"), EOFT>>}

\* C20: the expression rule run on a call whose callee is not an identifier
\* ends normally with the error flag set, the message "Expected function
\* name" and no node.
C20_NonIdentifierCallee ==
    (entry = "parse_expression" /\ tokens \in NonIdentifierCalls /\ Finished)
        => /\ status = "done"
           /\ had_error
           /\ error_message = "Expected function name"
           /\ ret = Null

(***************************************************************************)
(* Properties of the lowering passes on trees with absent children,        *)
(* checked under SpecGen.                                                  *)
(***************************************************************************)
\* for ( ; ; i + 1) print(i); built with the initializer and the condition
\* absent
ForWithoutInit == FunctionOf("main", <<ast_create_for(Null, Null, IPlus1, PrintI)>>)

\* its listing with no code for the initializer and the condition, the
\* call as the body and the addition as the update
ForWithoutInitTac ==
    <<"function main:", "L0:", "param i", "t0 = call print, 1", "L2:", "t1 = i + 1",
      "goto L0", "L1:", "end function", "">>

\* C16: on every tree built by the constructors, also with children absent,
\* no pass is killed by reading a child slot that was never filled, and the
\* for statement built without initializer and condition is lowered with
\* its body and its update in their own places.
C16_NullChildTolerance ==
    /\ ~Ran("crashed")
    /\ (ast = ForWithoutInit /\ Ran("tac")) => tac_file = ForWithoutInitTac

(***************************************************************************)
(* Property of the driver, checked under SpecMain.                         *)
(***************************************************************************)
\* C14: whenever main has ended after the parser returned a tree, the tree
\* has been passed to ast_free_node exactly once and the release did not
\* abort the run.
C14_TreeReleasedOnce ==
    (main_pc \in Exits /\ ast # Null) => (freed = 1 /\ main_pc # "aborted")

\* int x = i + 1; as the only statement of main, lowered by both passes
LoweredDeclaration ==
    /\ ast = FunctionOf("main", <<ast_create_var_decl("int", "x", IPlus1)>>)
    /\ Ran("tac") /\ Ran("stack")

\* C21: the declaration int x = i + 1 is lowered to a TAC line x = <value>
\* and to the stack line STORE x, which name the declared identifier alone.
C21_DeclarationNamesVariable ==
    LoweredDeclaration
        => /\ \E k \in 1..Len(tac_file) : StartsWith(tac_file[k], "x = ")
           /\ \E k \in 1..Len(stack_file) : stack_file[k] = "STORE x"

\* the clauses of the for statements that are lowered as the only statement
\* of main: for (;;) b, for (; c; u) b, for (; ; u) b and for (i; c; u) b
ForCases ==
    {[init |-> i, condition |-> c, update |-> u, body |-> PrintI] :
        i \in {Null, ast_create_assignment("i", ast_create_number("0"))},
        c \in {Null, ILess3},
        u \in {Null, IPlus1, ast_create_assignment("i", IPlus1)}}

ForOf(c) == ast_create_for(c.init, c.condition, c.update, c.body)

\* the For node that is the only statement of main
ForNode == ast.children[2].children[1]

\* the positions of the lines of the TAC listing that are labels
LabelLines == {k \in 1..Len(tac_file) : StartsWith(tac_file[k], "L")}

\* the call of the body follows the start label and precedes the update label
BodyInsideLoop ==
    \E b \in 1..Len(tac_file) :
        /\ \E t \in {issued[k].name : k \in 1..Len(issued)} :
               tac_file[b] = t \o " = call print, 1"
        /\ Cardinality({k \in LabelLines : k < b}) = 1

\* the comparison is followed at once by the branch that leaves the loop
ConditionGuardsLoop ==
    \E k \in 1..(Len(tac_file) - 1) :
        \E t \in {issued[j].name : j \in 1..Len(issued)} :
            /\ tac_file[k] = t \o " = i < 3"
            /\ StartsWith(tac_file[k + 1], "if " \o t \o " == 0 goto ")

\* C22: for every combination of present and absent clauses the For node
\* holds the condition in children[1], the update in children[2] and the
\* body in children[3], and the TAC pass lowers the body between the start
\* label and the update label and the condition as the test of the loop.
C22_PositionalForChildren ==
    \A c \in ForCases :
        (ast = FunctionOf("main", <<ForOf(c)>>) /\ Ran("tac"))
            => /\ Len(ForNode.children) = 4
               /\ ForNode.children[4] = c.body
               /\ c.condition # Null => ForNode.children[2] = c.condition
               /\ c.update # Null => ForNode.children[3] = c.update
               /\ BodyInsideLoop
               /\ c.condition # Null => ConditionGuardsLoop

(***************************************************************************)
(* Properties of the cursor of the predictive parser, checked under Spec.  *)
(***************************************************************************)
\* the token texts each rule that tests the text of its lookahead accepts
AcceptedText ==
    [parse_assignment |-> {"="},
     parse_equality |-> {"==", "!="},
     parse_comparison |-> {">", ">=", "<", "<="},
     parse_term |-> {"+", "-"},
     parse_factor |-> {"*", "/", "%"},
     parse_unary |-> {"!", "-"},
     parse_call |-> {"(", ",", ")"}]

\* the tokens a step moves the cursor past
Consumed == {tokens[k] : k \in (current_token + 1)..current_token'}

\* C23: a step of an expression layer or of the call rule moves the cursor
\* only past tokens whose text the rule accepts; any other operator or
\* punctuation stays the current token for the enclosing rule.
C23_ConsumedOnlyOnMatch ==
    [][(status = "running" /\ Top(frames).fn \in DOMAIN AcceptedText)
          => \A t \in Consumed : t.value \in AcceptedText[Top(frames).fn]]_vars

\* int main ( ) { return 0 ; }, int f ( ) { f ( ) ; } and int f ( ) { }
ClosedFunctions ==
    {<<KW("int"), ID("main"), PU("("), PU(")"), PU("{"), KW("return"), NUM("0"), PU(";"),
       PU("}"), EOFT>>,
     <<KW("int"), ID("f"), PU("("), PU(")"), PU("{"), ID("f"), PU("("), PU(")"), PU(";"),
       PU("}"), EOFT>>,
     FunctionHead \o <<PU("}"), EOFT>>}

\* C24: on a function whose body is closed by a '}' that is the last token
\* before EOF no "Unterminated block" is reported, and the program rule
\* ends normally with the error flag clear and the FunctionDecl in the tree.
C24_NoFalseUnterminatedBlock ==
    (entry = "parse_program" /\ tokens \in ClosedFunctions)
        => /\ \A k \in 1..Len(reported) : reported[k] # "Unterminated block"
           /\ Finished => /\ Accepted
                          /\ Len(ret.children) = 1
                          /\ ret.children[1].type = "FUNCTION_DECL"

(***************************************************************************)
(* Properties of the shift-reduce parser, checked under SpecLalr.          *)
(***************************************************************************)
\* the shifts made so far are one at most, of a leading type keyword, and
\* the value stack holds the shifted tokens and no node built by a reduce
OneShiftAtMost ==
    /\ current_token \in {0, 1}
    /\ symbol_stack = SubSeq(tokens, 1, current_token)
    /\ state_stack = IF current_token = 0 THEN <<0>> ELSE <<0, 1>>
    /\ current_token = 1 => /\ tokens[1].type = "KEYWORD"
                            /\ tokens[1].value \in {"int", "float", "char", "void"}

\* the run has ended with no tree and the error "Syntax error"
Rejected ==
    /\ ret = Null
    /\ had_error
    /\ error_message = "Syntax error"
    /\ reported = <<"Syntax error">>

\* C25: on every EOF-terminated token stream the shift-reduce parser makes
\* at most one shift, of a leading int/float/char/void keyword, and no
\* reduce; when it has returned it has returned no tree with the error
\* "Syntax error"; every iteration that does not return is the one shift,
\* so the loop returns in its second iteration at the latest.
C25_NeverAccepts ==
    /\ [](entry = "parser_lalr_parse"
            => OneShiftAtMost /\ (status = "done" => Rejected))
    /\ [][status' = "done" \/ (current_token = 0 /\ current_token' = 1)]_vars

\* a run that has ended in its second iteration, after the shift of a
\* leading type keyword
C25_Witness ==
    /\ entry = "parser_lalr_parse"
    /\ status = "done"
    /\ current_token = 1
    /\ Len(tokens) > 2
    /\ Rejected

(***************************************************************************)
(* Property of the release of the shift-reduce parser, checked under       *)
(* SpecMain.                                                               *)
(***************************************************************************)
\* the value stack parser_lalr_free is given by main: the stack left by
\* parser_lalr_parse on the token stream
ReleasedStack == lalr_run(lalr_init).l.symbol_stack

\* C26: when main has released the shift-reduce parser, every value stack
\* entry that was passed to ast_free_node is a tree node, none is a Token of
\* the token stream, and the release has not aborted the run.
C26_TokensNotReleased ==
    (parser_type = "lalr" /\ main_pc # "parse")
        => /\ \A k \in 1..Len(ReleasedStack) : "children" \in DOMAIN ReleasedStack[k]
           /\ main_pc # "aborted"

(***************************************************************************)
(* Property of the ownership of tree nodes in the predictive parser,       *)
(* checked under Spec.                                                     *)
(***************************************************************************)
\* C27: when parse_program has returned, no node allocated during the parse
\* is left allocated outside the returned tree (no callee Identifier, no
\* assignment target, no value of an invalid assignment), and no release
\* made during the parse has freed a block twice.
C27_NoNodeLostOrFreedTwice ==
    (entry = "parse_program" /\ status = "done")
        => /\ heap.lost = <<>>
           /\ heap.twice = 0

(***************************************************************************)
(* Properties of the labels and of the stack discipline of the lowering    *)
(* passes, checked under SpecGen.                                          *)
(***************************************************************************)
\* the label a TAC branch line names: the text after "goto "
BranchTarget(line) ==
    IF StartsWith(line, "goto ") THEN From(line, 5)
    ELSE From(line, 5 + CHOOSE i \in 1..Len(line) :
                          i + 5 <= Len(line) /\ SubSeq(line, i, i + 5) = " goto ")

TacTargets ==
    {BranchTarget(tac_file[k]) :
        k \in {j \in 1..Len(tac_file) : \/ StartsWith(tac_file[j], "goto ")
                                        \/ StartsWith(tac_file[j], "if ")}}

StackTargets ==
    {From(stack_file[k], 3) : k \in {j \in 1..Len(stack_file) : StartsWith(stack_file[j], "JZ ")}}
    \cup {From(stack_file[k], 4) :
             k \in {j \in 1..Len(stack_file) : StartsWith(stack_file[j], "JMP ")}}

\* the positions of the label lines of a listing that carry the name
LabelLinesOf(lines, name) == {k \in 1..Len(lines) : lines[k] = name \o ":"}

LabelNames == {issued[k].name : k \in {j \in 1..Len(issued) : issued[j].kind = "L"}}

WellMatched(lines, targets) ==
    /\ \A n \in targets : Cardinality(LabelLinesOf(lines, n)) = 1
    /\ \A n \in LabelNames : Cardinality(LabelLinesOf(lines, n)) <= 1

\* C28: in the TAC listing and in the stack listing of a completed pass every
\* label named by a goto, a conditional branch, a JMP or a JZ is the name of
\* exactly one label line of the same listing, and no label name is written
\* as a label line twice.
C28_LabelsWellMatched ==
    /\ Ran("tac") => WellMatched(tac_file, TacTargets)
    /\ Ran("stack") => WellMatched(stack_file, StackTargets)

\* both passes have lowered the while statement that holds an if statement
\* that holds a for statement
C28_Witness ==
    /\ ast = FunctionOf("main", <<NestedSample>>)
    /\ Ran("tac") /\ Ran("stack")
    /\ Cardinality(TacTargets) = 6
    /\ Cardinality(StackTargets) = 6
    /\ TacTargets \cap StackTargets = {}

\* the change of the depth of the operand stack made by one line of the
\* stack listing that an update expression can be lowered to
Effect(line) ==
    IF StartsWith(line, "PUSH ") \/ StartsWith(line, "LOAD ") THEN 1
    ELSE IF StartsWith(line, "STORE ") \/ line = "POP" THEN -1
    ELSE IF line \in {"ADD", "SUB", "MUL", "DIV", "MOD", "EQ", "NEQ", "LT", "LTE", "GT", "GTE"}
    THEN -1
    ELSE 0

RECURSIVE Net(_, _, _)
\* the change of depth made by the lines from .. to of the listing
Net(lines, from, to) ==
    IF from > to THEN 0 ELSE Effect(lines[from]) + Net(lines, from + 1, to)

\* the POP of an update: the POP written just before the jump back
UpdatePops ==
    {k \in 1..(Len(stack_file) - 1) :
        stack_file[k] = "POP" /\ StartsWith(stack_file[k + 1], "JMP ")}

\* the update label: the last label line before the POP
UpdateLabel(pop) ==
    CHOOSE u \in 1..(pop - 1) :
        /\ \E n \in LabelNames : stack_file[u] = n \o ":"
        /\ \A k \in (u + 1)..(pop - 1) : \A n \in LabelNames : stack_file[k] # n \o ":"

\* main holds one for statement with all four clauses, lowered by the
\* stack pass
LoweredFullFor ==
    /\ ast.type = "FUNCTION_DECL" /\ Len(ast.children) = 2
    /\ Len(ast.children[2].children) = 1
    /\ ForNode.type = "FOR" /\ Len(ForNode.children) = 4
    /\ Ran("stack")

\* C29: in the stack listing of a for statement with an update, the lines
\* between the update label and the POP that discards the update push
\* exactly one value, so the POP takes the update's value and nothing that
\* was on the stack at loop entry.
C29_UpdateDiscardBalanced ==
    LoweredFullFor
        => /\ UpdatePops # {}
           /\ \A pop \in UpdatePops : Net(stack_file, UpdateLabel(pop) + 1, pop - 1) = 1

(***************************************************************************)
(* Bounds of the cursor of the predictive parser, checked under Spec.      *)
(***************************************************************************)
\* the next statement of the running rule is parser->current_token--
AboutToPutBack ==
    /\ status = "running"
    /\ \/ Top(frames).fn = "parse_statement" /\ Top(frames).pc = 2
       \/ Top(frames).fn = "parse_for_statement" /\ Top(frames).pc = 6

\* C30: in every state of a parse the cursor is an index of the token
\* stream, at most the index of the EOF token, and it is at least 1 whenever
\* parse_statement or parse_for_statement is about to step it back.
C30_CursorInBounds ==
    entry \in Entries
        => /\ current_token >= 0
           /\ current_token <= Len(tokens) - 1
           /\ AboutToPutBack => current_token >= 1

\* the program rule has reached the put-back of parse_for_statement on a
\* type keyword
C30_Witness ==
    /\ entry = "parse_program"
    /\ AboutToPutBack
    /\ Top(frames).fn = "parse_for_statement"
    /\ tokens[current_token].value = "int"
====
